---------------------------- MODULE Spec2Model ----------------------------
(***************************************************************************)
(* Model of the VlSU schedule bot (Diwan1337/vlsu_schedule_bot).           *)
(*                                                                         *)
(*   SpecCalendar  - get_week_status (src/app/bot.py) applied to a date    *)
(*   SpecNormalize - normalize_schedule (src/app/vlsu_api.py) applied to   *)
(*                   one raw JSON payload                                  *)
(*   SpecWeekType  - normalize_week_type applied to one value              *)
(*   SpecParseCell - _parse_cell_text applied to one cell text             *)
(*   SpecHarvest   - the bulk harvests of src/app/bulk_parse.py and        *)
(*                   src/app/cli.py saving lessons through one sqlite3     *)
(*                   connection                                            *)
(*   SpecBot       - the aiogram handlers of src/app/bot.py over the       *)
(*                   per-chat PROFILES / LISTS_CACHE dictionaries          *)
(*   SpecTasks     - the same handlers as tasks interleaved at their       *)
(*                   awaits, for two chats                                 *)
(*                                                                         *)
(* Python strings are sequences of one-character strings, so that strip,   *)
(* lower, split and substring tests are computed and not assumed.  The     *)
(* Cyrillic literals of the source are transliterated to ASCII (the        *)
(* parser of the tools reads ASCII strings only); each transliteration is  *)
(* noted at its definition.                                                *)
(***************************************************************************)
EXTENDS Integers, Sequences, FiniteSets, TLC

VARIABLES
    d,            \* SpecCalendar: the date handed to get_week_status (ordinal)
    status,       \* SpecCalendar: what get_week_status returned
    raw,          \* SpecNormalize: the raw JSON payload
    result,       \* SpecNormalize: outcome of normalize_schedule(raw)
    PROFILES,     \* SpecBot: chat id -> Profile, for the chats that have one
    LISTS_CACHE,  \* SpecBot: chat id -> key -> cached list
    screen,       \* SpecBot: chat id -> what the last handler sent/edited
    today,        \* SpecBot: tznow().date()
    keyboards,    \* SpecBot: chat id -> the dates of the week:<date> buttons sent
    tasks,        \* SpecTasks: the handler tasks suspended at an await, and the last step
    table,        \* SpecHarvest: group id -> the committed rows of table lessons
    conn,         \* SpecHarvest: group id -> the rows as the open connection sees them
    run           \* SpecHarvest: the harvest under way: position, phase and log

calVars  == <<d, status>>
normVars == <<raw, result>>
botVars  == <<PROFILES, LISTS_CACHE, screen, today, keyboards, tasks>>
storeVars == <<table, conn, run>>
vars     == <<d, status, raw, result, PROFILES, LISTS_CACHE, screen, today,
             keyboards, tasks, table, conn, run>>

(***************************************************************************)
(* datetime.date: a date is its proleptic Gregorian ordinal                *)
(* (date.toordinal(): 0001-01-01 is 1, a Monday).                          *)
(***************************************************************************)
IsLeap(y) == (y % 4 = 0) /\ ((y % 100 /= 0) \/ (y % 400 = 0))

DaysInMonth(y, m) ==
    IF m = 2 THEN (IF IsLeap(y) THEN 29 ELSE 28)
    ELSE IF m \in {4, 6, 9, 11} THEN 30 ELSE 31

RECURSIVE DaysBeforeMonth(_, _)
DaysBeforeMonth(y, m) ==
    IF m = 1 THEN 0 ELSE DaysBeforeMonth(y, m - 1) + DaysInMonth(y, m - 1)

DaysBeforeYear(y) ==
    (y - 1) * 365 + ((y - 1) \div 4) - ((y - 1) \div 100) + ((y - 1) \div 400)

date(y, m, dd) == DaysBeforeYear(y) + DaysBeforeMonth(y, m) + dd

isoweekday(o) == ((o - 1) % 7) + 1

(***************************************************************************)
(* bot.py: calendar configuration and get_week_status                      *)
(***************************************************************************)
SEMESTER_START == date(2025, 9, 1)

SPECIAL_PERIODS == <<
    <<date(2025, 9, 29),  date(2025, 10, 11), "rc">>,
    <<date(2025, 11, 10), date(2025, 11, 22), "rc">>,
    <<date(2025, 12, 22), date(2025, 12, 30), "rc">>,
    <<date(2026, 3, 2),   date(2026, 3, 14),  "rc">>,
    <<date(2026, 4, 13),  date(2026, 4, 25),  "rc">>,
    <<date(2026, 5, 25),  date(2026, 6, 6),   "rc">>,
    <<date(2025, 11, 3),  date(2025, 11, 4),  "holiday">>,
    <<date(2025, 12, 31), date(2026, 1, 11),  "holiday">>,
    <<date(2026, 2, 23),  date(2026, 2, 23),  "holiday">>,
    <<date(2026, 3, 9),   date(2026, 3, 9),   "holiday">>,
    <<date(2026, 5, 1),   date(2026, 5, 2),   "holiday">>,
    <<date(2026, 5, 11),  date(2026, 5, 11),  "holiday">>,
    <<date(2026, 6, 12),  date(2026, 6, 13),  "holiday">>,
    <<date(2026, 1, 12),  date(2026, 1, 24),  "exam">>,
    <<date(2026, 6, 9),   date(2026, 6, 30),  "exam">>,
    <<date(2026, 1, 26),  date(2026, 1, 31),  "vacation">> >>

\* mutant: week 0 (the seven days before the semester) not taken as 'before'
week_parity_StrictBefore(dt) ==
    LET week_num == ((dt - SEMESTER_START) \div 7) + 1
        block    == (week_num - 1) \div 7
    IN  IF week_num < 0 THEN "before"
        ELSE IF block % 2 = 0 THEN "odd" ELSE "even"

\* mutant: the parity alternating every week instead of every 7-week block
week_parity_Alternating(dt) ==
    LET week_num == ((dt - SEMESTER_START) \div 7) + 1
    IN  IF week_num <= 0 THEN "before"
        ELSE IF (week_num - 1) % 2 = 0 THEN "odd" ELSE "even"

\* the block-parity arithmetic of get_week_status (lines 84-88)
week_parity(dt) ==
    LET week_num == ((dt - SEMESTER_START) \div 7) + 1
        block    == (week_num - 1) \div 7
    IN  IF week_num <= 0 THEN "before"
        ELSE IF block % 2 = 0 THEN "odd" ELSE "even"

\* the for-loop over the periods (lines 79-81): the kind of the first period,
\* from index i on, that contains dt; "" when the loop ends without a return
RECURSIVE period_loop(_, _, _)
period_loop(periods, i, dt) ==
    IF i > Len(periods) THEN ""
    ELSE IF periods[i][1] <= dt /\ dt <= periods[i][2] THEN periods[i][3]
    ELSE period_loop(periods, i + 1, dt)

\* mutant: the Sunday rule consulted before the override periods
week_status_over_SundayFirst(periods, dt) ==
    IF isoweekday(dt) = 7 THEN "holiday"
    ELSE IF period_loop(periods, 1, dt) /= "" THEN period_loop(periods, 1, dt)
    ELSE week_parity(dt)

\* mutant: the Sunday rule testing weekday 6, as date.weekday() numbers Sunday
week_status_over_SaturdayRule(periods, dt) ==
    IF period_loop(periods, 1, dt) /= "" THEN period_loop(periods, 1, dt)
    ELSE IF isoweekday(dt) = 6 THEN "holiday"
    ELSE week_parity(dt)

\* get_week_status with the period list as a parameter
week_status_over(periods, dt) ==
    IF period_loop(periods, 1, dt) /= "" THEN period_loop(periods, 1, dt)
    ELSE IF isoweekday(dt) = 7 THEN "holiday"
    ELSE week_parity(dt)

get_week_status(dt) == week_status_over(SPECIAL_PERIODS, dt)

\* mutant: the day itself instead of the Monday of its week
monday_of_week_SameDay(dt) == dt

monday_of_week(dt) == dt - (isoweekday(dt) - 1)

(***************************************************************************)
(* Python values.  A JSON value is a record [t, v]: t is its type and v    *)
(* its content (a str is the sequence of its characters, a list the        *)
(* sequence of its items, a dict the sequence of its <<key, value>> pairs  *)
(* in insertion order; keys are distinct).                                 *)
(***************************************************************************)
None      == [t |-> "null", v |-> 0]
Str(cs)   == [t |-> "str",  v |-> cs]
Num(n)    == [t |-> "num",  v |-> n]
List(xs)  == [t |-> "list", v |-> xs]
Dict(kvs) == [t |-> "dict", v |-> kvs]

\* a float, held in tenths (Float(15) is 1.5), and a bool
Float(tenths) == [t |-> "float", v |-> tenths]
Bool(b)       == [t |-> "bool", v |-> b]

IsStr(x)  == x.t = "str"
IsNum(x)  == x.t = "num"
IsList(x) == x.t = "list"
IsDict(x) == x.t = "dict"

\* bool(x)
Truthy(x) ==
    CASE x.t = "null"  -> FALSE
      [] x.t = "num"   -> x.v /= 0
      [] x.t = "float" -> x.v /= 0
      [] x.t = "bool"  -> x.v
      [] OTHER         -> x.v /= <<>>

\* x or y
Or(x, y) == IF Truthy(x) THEN x ELSE y

\* hash(x) succeeds
Hashable(x) == x.t \notin {"list", "dict"}

\* k in dct
HasKey(dct, k) == \E i \in 1..Len(dct.v) : dct.v[i][1] = k

\* dct[k], for a key the dict has
Item(dct, k) == dct.v[CHOOSE i \in 1..Len(dct.v) : dct.v[i][1] = k][2]

\* dct.get(k, default)
DictGet(dct, k, default) == IF HasKey(dct, k) THEN Item(dct, k) ELSE default

Whitespace == {" ", "\t", "\n"}
DigitChars == <<"0", "1", "2", "3", "4", "5", "6", "7", "8", "9">>
DigitSet   == {DigitChars[i] : i \in 1..10}
UpperChars == <<"A","B","C","D","E","F","G","H","I","J","K","L","M",
                "N","O","P","Q","R","S","T","U","V","W","X","Y","Z">>
LowerChars == <<"a","b","c","d","e","f","g","h","i","j","k","l","m",
                "n","o","p","q","r","s","t","u","v","w","x","y","z">>

\* s.lower()
lower(cs) ==
    [i \in 1..Len(cs) |->
        IF \E j \in 1..26 : UpperChars[j] = cs[i]
        THEN LowerChars[CHOOSE j \in 1..26 : UpperChars[j] = cs[i]]
        ELSE cs[i]]

RECURSIVE lstrip(_)
lstrip(cs) ==
    IF cs /= <<>> /\ Head(cs) \in Whitespace THEN lstrip(Tail(cs)) ELSE cs

RECURSIVE rstrip(_)
rstrip(cs) ==
    IF cs /= <<>> /\ cs[Len(cs)] \in Whitespace
    THEN rstrip(SubSeq(cs, 1, Len(cs) - 1)) ELSE cs

\* s.strip()
strip(cs) == rstrip(lstrip(cs))

\* pat in s
Contains(cs, pat) ==
    \E i \in 1..(Len(cs) - Len(pat) + 1) : SubSeq(cs, i, i + Len(pat) - 1) = pat

\* s.isdigit()
isdigit(cs) == cs /= <<>> /\ \A i \in 1..Len(cs) : cs[i] \in DigitSet

DigitValue(c) == (CHOOSE i \in 1..10 : DigitChars[i] = c) - 1

\* int(s) for a string of digits
RECURSIVE ParseInt(_)
ParseInt(cs) ==
    IF cs = <<>> THEN 0
    ELSE 10 * ParseInt(SubSeq(cs, 1, Len(cs) - 1)) + DigitValue(cs[Len(cs)])

\* str(n) for n >= 0
RECURSIVE Digits(_)
Digits(n) ==
    IF n < 10 THEN <<DigitChars[n + 1]>>
    ELSE Digits(n \div 10) \o <<DigitChars[(n % 10) + 1]>>

\* s.split(sep) for a one-character separator
RECURSIVE split(_, _)
split(cs, sep) ==
    IF \A i \in 1..Len(cs) : cs[i] /= sep THEN <<cs>>
    ELSE LET i == CHOOSE j \in 1..Len(cs) :
                     cs[j] = sep /\ \A k \in 1..(j - 1) : cs[k] /= sep
         IN  <<SubSeq(cs, 1, i - 1)>> \o split(SubSeq(cs, i + 1, Len(cs)), sep)

\* sep.join(parts)
RECURSIVE join(_, _)
join(sep, parts) ==
    IF parts = <<>> THEN <<>>
    ELSE IF Len(parts) = 1 THEN parts[1]
    ELSE parts[1] \o sep \o join(sep, Tail(parts))

\* the characters of a dict key (keys are held as whole strings): one row for
\* every key the code names or a payload of the model uses
KeyText(k) ==
    CASE k = "odd" -> <<"o","d","d">>
      [] k = "even" -> <<"e","v","e","n">>
      [] k = "k" -> <<"k">>
      [] k = "X" -> <<"X">>
      [] k = "type" -> <<"t","y","p","e">>
      [] k = "name" -> <<"n","a","m","e">>
      [] k = "n1" -> <<"n","1">>
      [] k = "n2" -> <<"n","2">>
      [] k = "n3" -> <<"n","3">>
      [] k = "n4" -> <<"n","4">>
      [] k = "n5" -> <<"n","5">>
      [] k = "n6" -> <<"n","6">>
      [] k = "n7" -> <<"n","7">>
      [] k = "z1" -> <<"z","1">>
      [] k = "z2" -> <<"z","2">>
      [] k = "z3" -> <<"z","3">>
      [] k = "z4" -> <<"z","4">>
      [] k = "z5" -> <<"z","5">>
      [] k = "z6" -> <<"z","6">>
      [] k = "z7" -> <<"z","7">>
      [] k = "WeekType" -> <<"W","e","e","k","T","y","p","e">>
      [] k = "Week" -> <<"W","e","e","k">>
      [] k = "WeekMode" -> <<"W","e","e","k","M","o","d","e">>
      [] k = "TypeWeek" -> <<"T","y","p","e","W","e","e","k">>
      [] k = "Day" -> <<"D","a","y">>
      [] k = "DayOfWeek" -> <<"D","a","y","O","f","W","e","e","k">>
      [] k = "WeekDay" -> <<"W","e","e","k","D","a","y">>
      [] k = "Start" -> <<"S","t","a","r","t">>
      [] k = "TimeStart" -> <<"T","i","m","e","S","t","a","r","t">>
      [] k = "Begin" -> <<"B","e","g","i","n">>
      [] k = "From" -> <<"F","r","o","m">>
      [] k = "StartTime" -> <<"S","t","a","r","t","T","i","m","e">>
      [] k = "End" -> <<"E","n","d">>
      [] k = "TimeEnd" -> <<"T","i","m","e","E","n","d">>
      [] k = "Finish" -> <<"F","i","n","i","s","h">>
      [] k = "To" -> <<"T","o">>
      [] k = "EndTime" -> <<"E","n","d","T","i","m","e">>
      [] k = "Title" -> <<"T","i","t","l","e">>
      [] k = "Discipline" -> <<"D","i","s","c","i","p","l","i","n","e">>
      [] k = "Subject" -> <<"S","u","b","j","e","c","t">>
      [] k = "Name" -> <<"N","a","m","e">>
      [] k = "Lesson" -> <<"L","e","s","s","o","n">>
      [] k = "Teacher" -> <<"T","e","a","c","h","e","r">>
      [] k = "Lecturer" -> <<"L","e","c","t","u","r","e","r">>
      [] k = "Professor" -> <<"P","r","o","f","e","s","s","o","r">>
      [] k = "Prepod" -> <<"P","r","e","p","o","d">>
      [] k = "TeacherName" -> <<"T","e","a","c","h","e","r","N","a","m","e">>
      [] k = "Room" -> <<"R","o","o","m">>
      [] k = "Audience" -> <<"A","u","d","i","e","n","c","e">>
      [] k = "Auditory" -> <<"A","u","d","i","t","o","r","y">>
      [] k = "Classroom" -> <<"C","l","a","s","s","r","o","o","m">>
      [] k = "Cabinet" -> <<"C","a","b","i","n","e","t">>
      [] k = "Aud" -> <<"A","u","d">>
      [] k = "Kind" -> <<"K","i","n","d">>
      [] k = "Type" -> <<"T","y","p","e">>
      [] k = "LessonType" -> <<"L","e","s","s","o","n","T","y","p","e">>
      [] k = "Format" -> <<"F","o","r","m","a","t">>
      [] k = "Days" -> <<"D","a","y","s">>
      [] k = "DayItems" -> <<"D","a","y","I","t","e","m","s">>
      [] k = "Schedule" -> <<"S","c","h","e","d","u","l","e">>
      [] k = "Lessons" -> <<"L","e","s","s","o","n","s">>
      [] k = "Pairs" -> <<"P","a","i","r","s">>
      [] k = "Items" -> <<"I","t","e","m","s">>
      [] k = "All" -> <<"A","l","l">>
      [] k = "Numerator" -> <<"N","u","m","e","r","a","t","o","r">>
      [] k = "Odd" -> <<"O","d","d">>
      [] k = "Denominator" -> <<"D","e","n","o","m","i","n","a","t","o","r">>
      [] k = "Even" -> <<"E","v","e","n">>

\* str(x); repr(x) is str(x) except for a str, which repr quotes
RECURSIVE PyStr(_)
PyRepr(x) == IF x.t = "str" THEN <<"'">> \o x.v \o <<"'">> ELSE PyStr(x)
PyStr(x) ==
    CASE x.t = "null" -> <<"N","o","n","e">>
      [] x.t = "str"  -> x.v
      [] x.t = "num"  -> IF x.v < 0 THEN <<"-">> \o Digits(-x.v) ELSE Digits(x.v)
      [] x.t = "float" ->
            (IF x.v < 0 THEN <<"-">> ELSE <<>>)
            \o Digits((IF x.v < 0 THEN -x.v ELSE x.v) \div 10) \o <<".">>
            \o Digits((IF x.v < 0 THEN -x.v ELSE x.v) % 10)
      [] x.t = "bool" -> IF x.v THEN <<"T","r","u","e">> ELSE <<"F","a","l","s","e">>
      [] x.t = "list" ->
            <<"[">> \o join(<<",", " ">>, [i \in 1..Len(x.v) |-> PyRepr(x.v[i])]) \o <<"]">>
      [] x.t = "dict" ->
            <<"{">> \o join(<<",", " ">>,
                            [i \in 1..Len(x.v) |->
                                <<"'">> \o KeyText(x.v[i][1]) \o <<"'", ":", " ">>
                                \o PyRepr(x.v[i][2])]) \o <<"}">>

(***************************************************************************)
(* vlsu_api.py: normalisation of the upstream answer                       *)
(***************************************************************************)
S_odd   == <<"o","d","d">>
S_even  == <<"e","v","e","n">>
S_chisl == <<"c","h","i","s","l">>   \* transliterates the numerator marker (line 145)
S_znam  == <<"z","n","a","m">>       \* transliterates the denominator marker (line 146)
S_Lessons == <<"L","e","s","s","o","n","s">>

\* int(val) for a number: a float is cut towards zero, True is 1
int_of(val) ==
    CASE val.t = "num"   -> val.v
      [] val.t = "float" -> IF val.v < 0 THEN -((-val.v) \div 10) ELSE val.v \div 10
      [] val.t = "bool"  -> IF val.v THEN 1 ELSE 0

\* mutant: a text that names no week kept as the week ("unrecognized" stands
\* for that text)
normalize_week_type_KeepsText(val) ==
    IF val = None THEN "all"
    ELSE IF val.t \in {"num", "float", "bool"} THEN
        (IF int_of(val) = 1 THEN "odd" ELSE IF int_of(val) = 2 THEN "even" ELSE "all")
    ELSE LET s == lower(strip(PyStr(val)))
         IN  IF Contains(s, S_chisl) \/ Contains(s, S_odd) THEN "odd"
             ELSE IF Contains(s, S_znam) \/ Contains(s, S_even) THEN "even"
             ELSE IF s \in {<<"0">>, <<"a","l","l">>, <<>>} THEN "all"
             ELSE "unrecognized"

\* mutant: the test for the denominator made before that for the numerator
normalize_week_type_EvenFirst(val) ==
    IF val = None THEN "all"
    ELSE IF val.t \in {"num", "float", "bool"} THEN
        (IF int_of(val) = 1 THEN "odd" ELSE IF int_of(val) = 2 THEN "even" ELSE "all")
    ELSE LET s == lower(strip(PyStr(val)))
         IN  IF Contains(s, S_znam) \/ Contains(s, S_even) THEN "even"
             ELSE IF Contains(s, S_chisl) \/ Contains(s, S_odd) THEN "odd"
             ELSE "all"

normalize_week_type(val) ==
    IF val = None THEN "all"
    ELSE IF val.t \in {"num", "float", "bool"} THEN
        (IF int_of(val) = 1 THEN "odd" ELSE IF int_of(val) = 2 THEN "even" ELSE "all")
    ELSE LET s == lower(strip(PyStr(val)))
         IN  IF Contains(s, S_chisl) \/ Contains(s, S_odd) THEN "odd"
             ELSE IF Contains(s, S_znam) \/ Contains(s, S_even) THEN "even"
             ELSE "all"

\* _pick(d, *keys, default=default): the first key of keys that dct has with
\* a value other than None and ""
RECURSIVE _pick(_, _, _)
_pick(dct, keys, default) ==
    IF keys = <<>> THEN default
    ELSE IF HasKey(dct, Head(keys)) /\ Item(dct, Head(keys)) \notin {None, Str(<<>>)}
         THEN Item(dct, Head(keys))
         ELSE _pick(dct, Tail(keys), default)

\* weekday names, transliterated (lines 169-177)
DAY_MAP_RU == <<
    <<<<"p","o","n","e","d","e","l","n","i","k">>, 1>>,
    <<<<"v","t","o","r","n","i","k">>, 2>>,
    <<<<"s","r","e","d","a">>, 3>>,
    <<<<"c","h","e","t","v","e","r","g">>, 4>>,
    <<<<"p","y","a","t","n","i","c","a">>, 5>>,
    <<<<"s","u","b","b","o","t","a">>, 6>>,
    <<<<"v","o","s","k","r","e","s","e","n","y","e">>, 7>> >>

PAIR_TIMES == <<
    <<<<"0","8",":","3","0">>, <<"1","0",":","0","0">>>>,
    <<<<"1","0",":","2","0">>, <<"1","1",":","5","0">>>>,
    <<<<"1","2",":","1","0">>, <<"1","3",":","4","0">>>>,
    <<<<"1","4",":","0","0">>, <<"1","5",":","3","0">>>>,
    <<<<"1","5",":","5","0">>, <<"1","7",":","2","0">>>>,
    <<<<"1","7",":","4","0">>, <<"1","9",":","1","0">>>>,
    <<<<"1","9",":","3","0">>, <<"2","1",":","0","0">>>> >>

\* mutant: a name outside the table taken as Monday
day_number_DefaultMonday(name) ==
    IF \E i \in 1..Len(DAY_MAP_RU) : DAY_MAP_RU[i][1] = name
    THEN DAY_MAP_RU[CHOOSE i \in 1..Len(DAY_MAP_RU) : DAY_MAP_RU[i][1] = name][2]
    ELSE 1

\* DAY_MAP_RU.get(name): 0 stands for None
day_number(name) ==
    IF \E i \in 1..Len(DAY_MAP_RU) : DAY_MAP_RU[i][1] = name
    THEN DAY_MAP_RU[CHOOSE i \in 1..Len(DAY_MAP_RU) : DAY_MAP_RU[i][1] = name][2]
    ELSE 0

_looks_like_room(s) ==
    LET x == strip(s)
    IN  (\E i \in 1..Len(x) : x[i] \in DigitSet) \/ Contains(x, <<"-">>)

\* mutant: a period or a space taken for a teacher
_looks_like_teacher_Either(s) == Contains(s, <<".">>) \/ Contains(s, <<" ">>)

_looks_like_teacher(s) == Contains(s, <<".">>) /\ Contains(s, <<" ">>)

\* [p.strip() for p in parts if p.strip()]
RECURSIVE stripped_parts(_)
stripped_parts(parts) ==
    IF parts = <<>> THEN <<>>
    ELSE (IF strip(Head(parts)) /= <<>> THEN <<strip(Head(parts))>> ELSE <<>>)
         \o stripped_parts(Tail(parts))

\* the first index outside used whose part satisfies the test; 0 when none
FirstRoom(parts, used) ==
    LET c == {i \in 1..Len(parts) : i \notin used /\ _looks_like_room(parts[i])}
    IN  IF c = {} THEN 0 ELSE CHOOSE i \in c : \A j \in c : i <= j

FirstTeacher(parts, used) ==
    LET c == {i \in 1..Len(parts) : i \notin used /\ _looks_like_teacher(parts[i])}
    IN  IF c = {} THEN 0 ELSE CHOOSE i \in c : \A j \in c : i <= j

RECURSIVE unused_parts(_, _, _)
unused_parts(parts, used, i) ==
    IF i > Len(parts) THEN <<>>
    ELSE (IF i \in used THEN <<>> ELSE <<parts[i]>>) \o unused_parts(parts, used, i + 1)

\* the tuple returned at line 224, from the stripped parts, the indices used
\* for the kind (used0), and the indices r and tch of the room and the teacher
\* (0: none found)
cell_fields(parts, used0, r, tch) ==
    [kind    |-> IF used0 = {} THEN None ELSE Str(parts[1]),
     room    |-> IF r = 0 THEN None ELSE Str(parts[r]),
     teacher |-> IF tch = 0 THEN None ELSE Str(parts[tch]),
     title   |-> IF unused_parts(parts, used0 \cup {r, tch}, 1) = <<>> THEN None
                 ELSE Str(join(<<",", " ">>, unused_parts(parts, used0 \cup {r, tch}, 1)))]

\* the teacher scan (lines 215-220), after the room scan took index r
scan_teacher(parts, used0, r) ==
    cell_fields(parts, used0, r, FirstTeacher(parts, used0 \cup {r}))

\* the room scan (lines 208-213), after the kind took the indices used0
scan_room(parts, used0) == scan_teacher(parts, used0, FirstRoom(parts, used0))

\* lines 204-206: the first part is the kind when it has at most 3 characters
scan_kind(parts) ==
    scan_room(parts, IF parts /= <<>> /\ Len(parts[1]) <= 3 THEN {1} ELSE {})

\* (kind, room, teacher, title) of a cell text
_parse_cell_text(s) ==
    IF s = <<>> THEN [kind |-> None, room |-> None, teacher |-> None, title |-> None]
    ELSE scan_kind(stripped_parts(split(s, ",")))

\* the outcome of a call: the list it returned, or the exception it raised
Returned(recs) == [st |-> "returned", recs |-> recs, err |-> ""]
Raised(e)      == [st |-> "raised",   recs |-> <<>>, err |-> e]
NotCalled      == [st |-> "idle",     recs |-> <<>>, err |-> ""]

\* a then b, where either may raise
Then(a, b) ==
    IF a.st = "raised" THEN a
    ELSE IF b.st = "raised" THEN b
    ELSE Returned(a.recs \o b.recs)

\* any([title, room, teacher, kind]) (line 247)
slot_has_content(p) ==
    Truthy(p.title) \/ Truthy(p.room) \/ Truthy(p.teacher) \/ Truthy(p.kind)

\* the record appended at lines 248-257
slot_lesson(day_num, idx, week, p) ==
    [day     |-> Num(day_num),
     start   |-> Str(PAIR_TIMES[idx][1]),
     end     |-> Str(PAIR_TIMES[idx][2]),
     title   |-> p.title,
     teacher |-> p.teacher,
     room    |-> p.room,
     kind    |-> p.kind,
     week    |-> week]

\* lines 244-257 for a non-empty or empty stripped cell
cell_records(day_num, idx, week, cell, p) ==
    IF cell = <<>> THEN Returned(<<>>)
    ELSE IF ~slot_has_content(p) THEN Returned(<<>>)
    ELSE Returned(<<slot_lesson(day_num, idx, week, p)>>)

\* line 243: (day_obj.get(key) or "").strip(), which raises for a value that
\* is truthy and not a str
cell_value(day_num, idx, week, c) ==
    IF ~IsStr(c) THEN Raised("AttributeError")
    ELSE cell_records(day_num, idx, week, strip(c.v), _parse_cell_text(strip(c.v)))

\* mutant: the denominator cell of a pair read before its numerator cell
slot_record_ZBeforeN(day_obj, day_num, slot) ==
    cell_value(day_num, (slot + 1) \div 2,
               IF slot % 2 = 1 THEN "even" ELSE "odd",
               Or(DictGet(day_obj,
                          (IF slot % 2 = 1 THEN "z" ELSE "n") \o ToString((slot + 1) \div 2),
                          None),
                  Str(<<>>)))

\* the body of the two inner loops (lines 242-257) for one slot of one
\* day-object: slot 2i-1 is key n<i> with week odd, slot 2i is z<i>, even
slot_record(day_obj, day_num, slot) ==
    cell_value(day_num, (slot + 1) \div 2,
               IF slot % 2 = 1 THEN "odd" ELSE "even",
               Or(DictGet(day_obj,
                          (IF slot % 2 = 1 THEN "n" ELSE "z") \o ToString((slot + 1) \div 2),
                          None),
                  Str(<<>>)))

RECURSIVE slot_loop(_, _, _)
slot_loop(day_obj, day_num, slot) ==
    IF slot > 14 THEN Returned(<<>>)
    ELSE LET a == slot_record(day_obj, day_num, slot)
         IN  IF a.st = "raised" THEN a
             ELSE Then(a, slot_loop(day_obj, day_num, slot + 1))

\* one iteration of the loop over raw (lines 235-257)
day_records(day_obj) ==
    IF ~IsDict(day_obj) THEN Returned(<<>>)
    ELSE IF DictGet(day_obj, "type", None) /= Str(S_Lessons) THEN Returned(<<>>)
    ELSE LET day_name == lower(strip(PyStr(DictGet(day_obj, "name", Str(<<>>)))))
             day_num  == day_number(day_name)
         IN  IF day_num = 0 THEN Returned(<<>>)
             ELSE slot_loop(day_obj, day_num, 1)

RECURSIVE _normalize_special_day_array(_)
_normalize_special_day_array(rawlist) ==
    IF rawlist = <<>> THEN Returned(<<>>)
    ELSE LET a == day_records(Head(rawlist))
         IN  IF a.st = "raised" THEN a
             ELSE Then(a, _normalize_special_day_array(Tail(rawlist)))

\* the alias lists of push (lines 278-287) and walk (lines 316-328)
WEEK_KEYS    == <<"WeekType", "Week", "WeekMode", "TypeWeek">>
DAY_KEYS     == <<"Day", "DayOfWeek", "WeekDay">>
START_KEYS   == <<"Start", "TimeStart", "Begin", "From", "StartTime">>
END_KEYS     == <<"End", "TimeEnd", "Finish", "To", "EndTime">>
TITLE_KEYS   == <<"Title", "Discipline", "Subject", "Name", "Lesson">>
TEACHER_KEYS == <<"Teacher", "Lecturer", "Professor", "Prepod", "TeacherName">>
ROOM_KEYS    == <<"Room", "Audience", "Auditory", "Classroom", "Cabinet", "Aud">>
KIND_KEYS    == <<"Kind", "Type", "LessonType", "Format">>
CONTAINER_KEYS == <<"Days", "DayItems", "Schedule", "Lessons", "Pairs", "Items">>
WEEK_VARIANT_KEYS == <<
    <<"All",         <<"a","l","l">>>>,
    <<"Numerator",   <<"o","d","d">>>>,
    <<"Odd",         <<"o","d","d">>>>,
    <<"Denominator", <<"e","v","e","n">>>>,
    <<"Even",        <<"e","v","e","n">>>> >>

\* mutant: the emptiness test of push dropped
push_has_content_Always(title, room, teacher, start, end) == TRUE

\* any([title, room, teacher, start, end]) (line 289)
push_has_content(title, room, teacher, start, end) ==
    Truthy(title) \/ Truthy(room) \/ Truthy(teacher) \/ Truthy(start) \/ Truthy(end)

\* int(day) if str(day).isdigit() else day (lines 292-295)
day_value(day) == IF isdigit(PyStr(day)) THEN Num(ParseInt(PyStr(day))) ELSE day

\* push(item, ctx_day, ctx_week): the records it appends to lessons
push(item, ctx_day, ctx_week) ==
    IF ~IsDict(item) THEN <<>>
    ELSE
    LET week    == normalize_week_type(_pick(item, WEEK_KEYS, ctx_week))
        day     == _pick(item, DAY_KEYS, ctx_day)
        start   == _pick(item, START_KEYS, None)
        end     == _pick(item, END_KEYS, None)
        title   == _pick(item, TITLE_KEYS, None)
        teacher == _pick(item, TEACHER_KEYS, None)
        room    == _pick(item, ROOM_KEYS, None)
        kind    == _pick(item, KIND_KEYS, None)
    IN  IF ~push_has_content(title, room, teacher, start, end) THEN <<>>
        ELSE <<[day     |-> day_value(day),
                start   |-> start,
                end     |-> end,
                title   |-> title,
                teacher |-> teacher,
                room    |-> room,
                kind    |-> kind,
                week    |-> week]>>

\* the test of lines 316-317: the node is a lesson candidate
is_candidate(node) ==
    \/ \E i \in 1..Len(START_KEYS) : HasKey(node, START_KEYS[i])
    \/ \E i \in 1..Len(TITLE_KEYS) : HasKey(node, TITLE_KEYS[i])

\* the day handed to the week-variant subtrees (line 330)
variant_day(ctx_day, new_day) == ctx_day

\* the test of the catch-all loop over node.values() (lines 332-333)
catch_all_visits(key, v) == v.t \in {"dict", "list"}

RECURSIVE walk(_, _, _)
RECURSIVE walk_items(_, _, _, _)
RECURSIVE walk_containers(_, _, _, _)
RECURSIVE walk_variants(_, _, _)
RECURSIVE walk_values(_, _, _, _)

\* for x in node: walk(x, ctx_day, ctx_week) (lines 310-311)
walk_items(xs, i, ctx_day, ctx_week) ==
    IF i > Len(xs) THEN <<>>
    ELSE walk(xs[i], ctx_day, ctx_week) \o walk_items(xs, i + 1, ctx_day, ctx_week)

\* the loop over the container keys (lines 323-325)
walk_containers(node, i, new_day, new_week) ==
    IF i > Len(CONTAINER_KEYS) THEN <<>>
    ELSE (IF HasKey(node, CONTAINER_KEYS[i])
          THEN walk(Item(node, CONTAINER_KEYS[i]), new_day, new_week)
          ELSE <<>>)
         \o walk_containers(node, i + 1, new_day, new_week)

\* the loop over the week-variant keys (lines 327-330)
walk_variants(node, i, day) ==
    IF i > Len(WEEK_VARIANT_KEYS) THEN <<>>
    ELSE (IF HasKey(node, WEEK_VARIANT_KEYS[i][1])
          THEN walk(Item(node, WEEK_VARIANT_KEYS[i][1]), day, Str(WEEK_VARIANT_KEYS[i][2]))
          ELSE <<>>)
         \o walk_variants(node, i + 1, day)

\* the catch-all loop over node.values() (lines 332-334)
walk_values(node, i, new_day, new_week) ==
    IF i > Len(node.v) THEN <<>>
    ELSE (IF catch_all_visits(node.v[i][1], node.v[i][2])
          THEN walk(node.v[i][2], new_day, new_week)
          ELSE <<>>)
         \o walk_values(node, i + 1, new_day, new_week)

\* walk(node, ctx_day, ctx_week): the records appended to lessons, in order
walk(node, ctx_day, ctx_week) ==
    IF IsList(node) THEN walk_items(node.v, 1, ctx_day, ctx_week)
    ELSE IF ~IsDict(node) THEN <<>>
    ELSE
    LET new_day  == _pick(node, DAY_KEYS, ctx_day)
        new_week == _pick(node, WEEK_KEYS, ctx_week)
    IN  (IF is_candidate(node) THEN push(node, ctx_day, ctx_week) ELSE <<>>)
        \o walk_containers(node, 1, new_day, new_week)
        \o walk_variants(node, 1, variant_day(ctx_day, new_day))
        \o walk_values(node, 1, new_day, new_week)

\* the tuple the final pass keys a record on (line 341); week is a str
dedup_key(l) == <<l.day, l.start, l.end, l.title, l.teacher, l.room, l.kind>>

key_hashable(l) == \A i \in 1..7 : Hashable(dedup_key(l)[i])

\* the final pass (lines 338-346): first occurrence wins
RECURSIVE uniq(_, _)
uniq(lessons, i) ==
    IF i > Len(lessons) THEN <<>>
    ELSE (IF \E j \in 1..(i - 1) : lessons[j] = lessons[i] THEN <<>> ELSE <<lessons[i]>>)
         \o uniq(lessons, i + 1)

\* the shape test of line 270
is_slotted(r) ==
    /\ IsList(r)
    /\ \E i \in 1..Len(r.v) :
          IsDict(r.v[i]) /\ (HasKey(r.v[i], "n1") \/ HasKey(r.v[i], "z1"))

\* mutant: the generic walker run when the slotted parser returns nothing
normalize_schedule_Fallback(r) ==
    IF is_slotted(r) /\ _normalize_special_day_array(r.v) /= Returned(<<>>)
    THEN _normalize_special_day_array(r.v)
    ELSE LET lessons == walk(r, None, None)
         IN  IF \E i \in 1..Len(lessons) : ~key_hashable(lessons[i])
             THEN Raised("TypeError")
             ELSE Returned(uniq(lessons, 1))

normalize_schedule(r) ==
    IF is_slotted(r) THEN _normalize_special_day_array(r.v)
    ELSE LET lessons == walk(r, None, None)
         IN  IF \E i \in 1..Len(lessons) : ~key_hashable(lessons[i])
             THEN Raised("TypeError")       \* key in seen: unhashable list or dict
             ELSE Returned(uniq(lessons, 1))

(***************************************************************************)
(* SpecCalendar: get_week_status applied to one date                       *)
(***************************************************************************)
\* dates range from DaysBefore days before the semester start to DaysAfter
\* days after it (the last configured period ends 302 days after it)
DaysBefore == 40
DaysAfter  == 320

NotResolved == "unresolved"

Dates == (SEMESTER_START - DaysBefore) .. (SEMESTER_START + DaysAfter)

IdleNorm == raw = [t |-> "null", v |-> 0] /\ result = [st |-> "idle", recs |-> <<>>, err |-> ""]
IdleBot  == /\ PROFILES = <<>> /\ LISTS_CACHE = <<>> /\ screen = <<>> /\ today = 0
            /\ keyboards = <<>> /\ tasks = <<>>
IdleCal  == d = 0 /\ status = NotResolved
IdleStore == table = <<>> /\ conn = <<>> /\ run = <<>>

InitCalendar ==
    /\ d \in Dates
    /\ status = NotResolved
    /\ IdleNorm
    /\ IdleBot
    /\ IdleStore

Resolve ==
    /\ status = NotResolved
    /\ status' = get_week_status(d)
    /\ UNCHANGED <<d, normVars, botVars, storeVars>>

NextCalendar == Resolve

SpecCalendar == InitCalendar /\ [][NextCalendar]_vars

Resolved == status /= NotResolved

\* the periods (indices) whose inclusive range contains dt
Covering(dt) ==
    {i \in 1..Len(SPECIAL_PERIODS) :
        SPECIAL_PERIODS[i][1] <= dt /\ dt <= SPECIAL_PERIODS[i][2]}

RECURSIVE Reverse(_)
Reverse(s) == IF s = <<>> THEN <<>> ELSE Reverse(Tail(s)) \o <<Head(s)>>

Min(S) == CHOOSE x \in S : \A y \in S : x <= y

HolidayPeriods == {i \in 1..Len(SPECIAL_PERIODS) : SPECIAL_PERIODS[i][3] = "holiday"}

(***************************************************************************)
(* Claims about get_week_status (SpecCalendar)                             *)
(***************************************************************************)

\* C6 (as stated): every date before the semester start that no override
\* period covers resolves to 'before' (2025-08-31 included), and the semester
\* start itself resolves to 'odd'.
C6_BeforeSemesterAsStated ==
    Resolved =>
        /\ (d < SEMESTER_START /\ Covering(d) = {}) => status = "before"
        /\ (d = date(2025, 8, 31)) => status = "before"
        /\ (d = SEMESTER_START) => status = "odd"

\* C6 (amended): a date before the semester start that no override period
\* covers resolves to 'before' unless it is a Sunday, which resolves to
\* 'holiday' (so 2025-08-30 is 'before' and 2025-08-31 is 'holiday'); the
\* semester start itself resolves to 'odd'.
C6_BeforeSemesterExceptSunday ==
    Resolved =>
        /\ (d < SEMESTER_START /\ Covering(d) = {} /\ isoweekday(d) /= 7)
              => status = "before"
        /\ (d < SEMESTER_START /\ Covering(d) = {} /\ isoweekday(d) = 7)
              => status = "holiday"
        /\ (d = date(2025, 8, 30)) => status = "before"
        /\ (d = date(2025, 8, 31)) => status = "holiday"
        /\ (d = SEMESTER_START) => status = "odd"

\* C6 witness: the last day before the semester, a Sunday, has been resolved
C6_Witness ==
    /\ Resolved
    /\ d = date(2025, 8, 31)
    /\ d < SEMESTER_START /\ Covering(d) = {} /\ isoweekday(d) = 7
    /\ status = "holiday"

\* C7 (as stated): every date inside a period tagged 'holiday' resolves to
\* 'holiday', whatever any other configured period gives for it.
C7_HolidayPeriodWins ==
    (Resolved /\ Covering(d) \cap HolidayPeriods /= {}) => status = "holiday"

\* C9: when at least one period contains the date, get_week_status returns the
\* tag of the first such period in list order, ahead of the Sunday rule and
\* of the parity arithmetic; and were a period tagged 'exam' that contains the
\* date put first in the list, any date (a Sunday or a pre-semester date
\* included) would resolve to 'exam'.
C9_FirstCoveringPeriodWins ==
    Resolved =>
        /\ Covering(d) /= {} => status = SPECIAL_PERIODS[Min(Covering(d))][3]
        /\ week_status_over(<< <<d, d, "exam">> >> \o SPECIAL_PERIODS, d) = "exam"

\* C9 witness: a Sunday inside an override period resolved to the period's
\* tag, which is not the Sunday rule's 'holiday'
C9_Witness ==
    /\ Resolved
    /\ Covering(d) /= {}
    /\ isoweekday(d) = 7
    /\ status = "rc"

\* C10 (as stated): the periods are pairwise non-overlapping (every date lies
\* in at most one), so the result is the same under any reordering of the
\* list, the reversed list included.
C10_PeriodsDisjoint ==
    Resolved =>
        /\ Cardinality(Covering(d)) <= 1
        /\ status = week_status_over(Reverse(SPECIAL_PERIODS), d)

\* the teaching week of a date on or after the semester start (week 1 starts
\* on the semester start)
WeekNo(dt) == ((dt - SEMESTER_START) \div 7) + 1

\* an ordinary teaching day: on or after the semester start, no Sunday, in no
\* override period
Ordinary(dt) == dt >= SEMESTER_START /\ isoweekday(dt) /= 7 /\ Covering(dt) = {}

\* C11: an ordinary teaching day resolves to 'odd' when
\* floor(floor(days / 7) / 7) is even and to 'even' when it is odd: weeks 1-7
\* are odd, 8-14 even, 15-21 odd, and so on.
C11_BlockParity ==
    (Resolved /\ Ordinary(d)) =>
        /\ status = (IF (((d - SEMESTER_START) \div 7) \div 7) % 2 = 0
                     THEN "odd" ELSE "even")
        /\ WeekNo(d) \in 1..7 => status = "odd"
        /\ WeekNo(d) \in 8..14 => status = "even"
        /\ WeekNo(d) \in 15..21 => status = "odd"
        /\ WeekNo(d) \in 22..28 => status = "even"

\* C11 witness: an ordinary day of week 9, the second week of the first even
\* block, resolved to 'even' as week 8 does
C11_Witness ==
    /\ Resolved
    /\ Ordinary(d)
    /\ WeekNo(d) = 9
    /\ status = "even"

\* C12: every Sunday that no override period covers resolves to 'holiday',
\* before and after the semester start.
C12_SundayIsHoliday ==
    (Resolved /\ isoweekday(d) = 7 /\ Covering(d) = {}) => status = "holiday"

\* C12 witness: a Sunday after the semester start, in no override period,
\* resolved to 'holiday'
C12_Witness ==
    /\ Resolved
    /\ isoweekday(d) = 7
    /\ d > SEMESTER_START
    /\ Covering(d) = {}
    /\ status = "holiday"

(***************************************************************************)
(* SpecNormalize: normalize_schedule applied to one raw payload            *)
(***************************************************************************)
\* wrappers nested around a lesson node of a generic tree
MaxDepth == 2
\* day-objects (or other elements) in a top-level list
MaxDays == 2

T_M     == Str(<<"M">>)
T_0830  == Str(PAIR_TIMES[1][1])
T_1000  == Str(PAIR_TIMES[1][2])
T_lk    == Str(<<"l","k">>)
T_Mon   == Str(<<"P","o","n","e","d","e","l","n","i","k"," ">>)
T_NoDay == Str(<<"x","x">>)
T_Wed   == Str(<<"S","R","E","D","A">>)
T_Other == Str(<<"O","t","h","e","r">>)

\* the nodes at the bottom of a generic tree
Leaves == {
    Dict(<< <<"Title", T_M>> >>),
    Dict(<< <<"Title", T_M>>, <<"Start", T_0830>>, <<"End", T_1000>> >>),
    Dict(<< <<"Start", Str(<<>>)>>, <<"End", T_1000>> >>),
    Dict(<< <<"Title", T_M>>, <<"Start", T_1000>>, <<"End", T_0830>> >>),
    Dict(<< <<"Title", T_M>>, <<"Week", Str(<<"x">>)>> >>),
    Dict(<< <<"Title", Str(<<>>)>>, <<"Kind", T_lk>> >>),
    Dict(<< <<"Title", List(<<T_M>>)>> >>),
    Dict(<< <<"Title", T_M>>, <<"Day", Num(3)>> >>),
    Dict(<< <<"Title", T_M>>, <<"Day", Str(<<"3">>)>> >>),
    Dict(<< <<"Name", T_M>>, <<"WeekType", Num(1)>> >>),
    Dict(<< <<"Room", Str(<<"5">>)>>, <<"Begin", None>>, <<"Week", Str(<<"Z","n","a","m">>)>> >>),
    Num(5) }

WrapKeys == {"Lessons", "Numerator", "Denominator", "X"}

\* {["Day": 2, "WeekType": 2,] key: [sub]}
Wrap(key, withCtx, sub) ==
    Dict((IF withCtx THEN << <<"Day", Num(2)>>, <<"WeekType", Num(2)>> >> ELSE <<>>)
         \o << <<key, List(<<sub>>)>> >>)

Wrappings(sub) ==
    {Wrap(k, wc, sub) : k \in WrapKeys, wc \in BOOLEAN}
    \cup {List(<<sub, sub>>),
          Dict(<< <<"Lessons", List(<<sub>>)>>, <<"Items", sub>> >>)}

RECURSIVE Trees(_)
Trees(n) ==
    IF n = 0 THEN Leaves
    ELSE Trees(n - 1) \cup UNION {Wrappings(sub) : sub \in Trees(n - 1)}

SlotCells == {
    Str(<<"l","k",","," ","M">>),
    Str(<<"l","k">>),
    Str(<<",">>),
    Str(<<"l","k",","," ","5","a","-","3",","," ","F"," ","D",".","O",".",","," ","M">>),
    Num(5),
    List(<<T_M>>) }

\* {"type": ty, "name": nm, "n1": n1 [, "z1": z1]}
DayObj(ty, nm, n1, withZ) ==
    Dict(<< <<"type", ty>>, <<"name", nm>>, <<"n1", n1>> >>
         \o (IF withZ THEN << <<"z1", Str(<<"l","k",","," ","M">>)>> >> ELSE <<>>))

ListItems ==
    {DayObj(Str(S_Lessons), T_Mon, c, z) : c \in SlotCells, z \in BOOLEAN}
    \cup {DayObj(T_Other, T_Mon, Str(<<"l","k",","," ","M">>), FALSE),
          DayObj(Str(S_Lessons), T_NoDay, Str(<<"l","k",","," ","M">>), FALSE),
          DayObj(Str(S_Lessons), T_Wed, Str(<<"l","k",","," ","M">>), FALSE),
          Dict(<< <<"type", Str(S_Lessons)>>, <<"n1", Str(<<"l","k",","," ","M">>)>> >>),
          Dict(<< <<"type", Str(S_Lessons)>>, <<"name", T_Mon>>,
                  <<"n3", Str(<<"l","k",","," ","M">>)>>, <<"z3", Str(<<"M">>)>> >>),
          Dict(<< <<"type", Str(S_Lessons)>>, <<"name", T_Mon>>,
                  <<"n2", Str(<<"l","k",","," ","M">>)>>, <<"z1", Str(<<"M">>)>> >>),
          Dict(<< <<"Title", T_M>> >>),
          Num(5)}

RECURSIVE Lists(_)
Lists(n) ==
    IF n = 0 THEN {<<>>}
    ELSE Lists(n - 1) \cup {<<x>> \o xs : x \in ListItems, xs \in Lists(n - 1)}

Inputs == Trees(MaxDepth) \cup {List(xs) : xs \in Lists(MaxDays)}

InitNormalize ==
    /\ raw \in Inputs
    /\ result = NotCalled
    /\ IdleCal
    /\ IdleBot
    /\ IdleStore

Normalize ==
    /\ result.st = "idle"
    /\ result' = normalize_schedule(raw)
    /\ UNCHANGED <<raw, calVars, botVars, storeVars>>

NextNormalize == Normalize

SpecNormalize == InitNormalize /\ [][NextNormalize]_vars

(***************************************************************************)
(* Claims about normalize_schedule (SpecNormalize)                         *)
(***************************************************************************)
Recs == result.recs

\* a field is present: neither None nor the empty string
Present(x) == x \notin {None, Str(<<>>)}

\* the record carries the content (everything but day and week) of node x
SameContent(rec, x) ==
    /\ rec.start   = _pick(x, START_KEYS, None)
    /\ rec.end     = _pick(x, END_KEYS, None)
    /\ rec.title   = _pick(x, TITLE_KEYS, None)
    /\ rec.teacher = _pick(x, TEACHER_KEYS, None)
    /\ rec.room    = _pick(x, ROOM_KEYS, None)
    /\ rec.kind    = _pick(x, KIND_KEYS, None)

\* the week a week-variant container key stands for
ForcedWeek(k) ==
    CASE k = "All" -> "all"
      [] k \in {"Numerator", "Odd"} -> "odd"
      [] k \in {"Denominator", "Even"} -> "even"
      [] OTHER -> "none"

\* the items a container value holds directly
DirectItems(v) ==
    IF IsList(v) THEN {v.v[i] : i \in 1..Len(v.v)} ELSE {v}

\* <<x, w>> for every lesson node x of the tree that sits directly under a
\* week-variant key standing for week w and names no week of its own
RECURSIVE VariantLeaves(_)
VariantLeaves(node) ==
    IF IsList(node) THEN UNION {VariantLeaves(node.v[i]) : i \in 1..Len(node.v)}
    ELSE IF ~IsDict(node) THEN {}
    ELSE UNION {
        (IF ForcedWeek(node.v[i][1]) = "none" THEN {}
         ELSE {<<x, ForcedWeek(node.v[i][1])>> :
                  x \in {y \in DirectItems(node.v[i][2]) :
                            /\ IsDict(y)
                            /\ is_candidate(y)
                            /\ _pick(y, WEEK_KEYS, None) = None}})
        \cup VariantLeaves(node.v[i][2]) : i \in 1..Len(node.v)}

\* <<x, day>> for every lesson node x of the tree that names no day of its
\* own and has an ancestor dict naming one; day is the nearest such ancestor's
RECURSIVE DayLeaves(_, _)
DayLeaves(node, day) ==
    IF IsList(node) THEN UNION {DayLeaves(node.v[i], day) : i \in 1..Len(node.v)}
    ELSE IF ~IsDict(node) THEN {}
    ELSE (IF is_candidate(node) /\ _pick(node, DAY_KEYS, None) = None /\ day /= None
          THEN {<<node, day>>} ELSE {})
         \cup UNION {DayLeaves(node.v[i][2], _pick(node, DAY_KEYS, day)) :
                        i \in 1..Len(node.v)}

\* C1 (as stated): normalize_schedule never raises; for every JSON value it
\* returns a list of records.
C1_NeverRaises == result.st /= "raised"

\* C2 (as stated): the returned sequence holds no two records with the same
\* (day, start, end, title, teacher, room, kind, week), on either path.
C2_NoDuplicateRecords ==
    result.st = "returned" =>
        \A i, j \in 1..Len(Recs) : i /= j => Recs[i] /= Recs[j]

\* C3 (as stated): every returned record has at least one of title, room,
\* teacher, start present; a node with none of the four yields no record.
C3_FourFieldsAsStated ==
    result.st = "returned" =>
        \A i \in 1..Len(Recs) :
            \/ Present(Recs[i].title) \/ Present(Recs[i].room)
            \/ Present(Recs[i].teacher) \/ Present(Recs[i].start)

\* C3 (amended): every returned record has at least one of title, room,
\* teacher, start, end present (non-empty); a candidate node of the generic
\* walker with none of these five (only a kind, say) yields no record.
C3_FiveFields ==
    result.st = "returned" =>
        /\ \A i \in 1..Len(Recs) :
              \/ Truthy(Recs[i].title) \/ Truthy(Recs[i].room)
              \/ Truthy(Recs[i].teacher) \/ Truthy(Recs[i].start)
              \/ Truthy(Recs[i].end)
        /\ ( /\ IsDict(raw) /\ is_candidate(raw)
             /\ \A i \in 1..Len(raw.v) : raw.v[i][2].t \notin {"dict", "list"}
             /\ ~Present(_pick(raw, TITLE_KEYS, None))
             /\ ~Present(_pick(raw, ROOM_KEYS, None))
             /\ ~Present(_pick(raw, TEACHER_KEYS, None))
             /\ ~Present(_pick(raw, START_KEYS, None))
             /\ ~Present(_pick(raw, END_KEYS, None)) ) => Recs = <<>>

\* C3 witness: a record was returned that has an end time and none of title,
\* room, teacher, start
C3_Witness ==
    /\ result.st = "returned"
    /\ \E i \in 1..Len(Recs) :
          /\ ~Present(Recs[i].title) /\ ~Present(Recs[i].room)
          /\ ~Present(Recs[i].teacher) /\ ~Present(Recs[i].start)
          /\ Present(Recs[i].end)

\* C4 (as stated): a lesson node directly beneath a week-variant container key
\* that names no week of its own yields records only with the week the
\* container stands for.
C4_VariantWeekOnly ==
    result.st = "returned" =>
        \A p \in VariantLeaves(raw) : \A i \in 1..Len(Recs) :
            SameContent(Recs[i], p[1]) => Recs[i].week = p[2]

\* C5 (as stated): every record of a lesson node that names no day of its own
\* has the day of the nearest ancestor dict that names one, whatever key the
\* node is reached through.
C5_NodeDayReachesDescendants ==
    result.st = "returned" =>
        \A p \in DayLeaves(raw, None) : \A i \in 1..Len(Recs) :
            SameContent(Recs[i], p[1]) => Recs[i].day = day_value(p[2])

\* the slot keys n1..n7, z1..z7
SlotKeys == {pre \o ToString(i) : pre \in {"n", "z"}, i \in 1..7}

HasSlotKey(x) == IsDict(x) /\ \E k \in SlotKeys : HasKey(x, k)

\* a day-object: a dict of type 'Lessons' whose name, trimmed and lower-cased,
\* is in the weekday table
IsDayObject(x) ==
    /\ IsDict(x)
    /\ DictGet(x, "type", None) = Str(S_Lessons)
    /\ day_number(lower(strip(PyStr(DictGet(x, "name", Str(<<>>)))))) /= 0

\* C14 (as stated): a top-level list in which any dict element has any slot
\* key n1..n7 or z1..z7 is parsed by the slotted parser.
C14_AnySlotKeyDetects ==
    (result.st /= "idle" /\ IsList(raw) /\ \E i \in 1..Len(raw.v) : HasSlotKey(raw.v[i]))
        => result = _normalize_special_day_array(raw.v)

\* C15: when the slotted-day detection succeeds, elements that are not
\* day-objects contribute nothing (the output is that of the day-objects
\* alone), and a list without day-objects yields no record, the generic walker
\* not being run in the parser's place.
C15_SlottedParserOnly ==
    (result.st = "returned" /\ is_slotted(raw)) =>
        /\ Recs = _normalize_special_day_array(SelectSeq(raw.v, IsDayObject)).recs
        /\ (\A i \in 1..Len(raw.v) : ~IsDayObject(raw.v[i])) => Recs = <<>>

\* C15 witness: detection succeeded on a list without day-objects that holds a
\* lesson candidate of the generic walker, and nothing was returned
C15_Witness ==
    /\ result.st = "returned"
    /\ is_slotted(raw)
    /\ \A i \in 1..Len(raw.v) : ~IsDayObject(raw.v[i])
    /\ walk(raw, None, None) /= <<>>
    /\ Recs = <<>>

\* the weekday name of a dict element, trimmed and lower-cased ('' when the
\* element has no name)
NameOf(x) == lower(strip(PyStr(DictGet(x, "name", Str(<<>>)))))

\* the values the weekday table holds for a name (none for a name outside it)
TableDays(nm) ==
    {DAY_MAP_RU[k][2] : k \in {j \in 1..Len(DAY_MAP_RU) : DAY_MAP_RU[j][1] = nm}}

TimeChars == DigitChars \o <<":">>

CharRank(c) == CHOOSE i \in 1..Len(TimeChars) : TimeChars[i] = c

\* a <= b as Python compares two strs of such characters
RECURSIVE LexLeq(_, _)
LexLeq(a, b) ==
    IF a = <<>> THEN TRUE
    ELSE IF b = <<>> THEN FALSE
    ELSE IF Head(a) = Head(b) THEN LexLeq(Tail(a), Tail(b))
    ELSE CharRank(Head(a)) < CharRank(Head(b))

\* C19 (as stated): in every returned record that has both a start and an
\* end, the start sorts lexicographically before or with the end.
C19_StartNotAfterEnd ==
    result.st = "returned" =>
        \A i \in 1..Len(Recs) :
            (IsStr(Recs[i].start) /\ IsStr(Recs[i].end)
             /\ Present(Recs[i].start) /\ Present(Recs[i].end))
                => LexLeq(Recs[i].start.v, Recs[i].end.v)

\* C20: every returned record, on either path, has week 'all', 'odd' or
\* 'even', whether the week is the node's own, inherited, forced by a
\* week-variant container or an unrecognized upstream value.
C20_WeekIsCanonical ==
    result.st = "returned" =>
        \A i \in 1..Len(Recs) : Recs[i].week \in {"all", "odd", "even"}

\* C20 witness: a lesson node with an unrecognized week text beneath a
\* week-variant container was returned with weeks among the three
C20_Witness ==
    /\ result.st = "returned"
    /\ raw = Dict(<< <<"Numerator",
                       List(<< Dict(<< <<"Title", T_M>>, <<"Week", Str(<<"x">>)>> >>) >>)>> >>)
    /\ Recs /= <<>>
    /\ \A i \in 1..Len(Recs) : Recs[i].week = "all"

(***************************************************************************)
(* SpecWeekType: normalize_week_type applied to one value                  *)
(***************************************************************************)
\* pieces a week text is put together from
MaxTokens == 2

WeekTokens == {
    S_odd, <<"E","v","e","n">>, <<"C","h","i","s","l">>, S_znam,
    <<"0">>, <<"1">>, <<"2">>, <<"a","l","l">>, <<" ">>, <<"x">> }

RECURSIVE WeekTexts(_)
WeekTexts(n) ==
    IF n = 0 THEN {<<>>}
    ELSE WeekTexts(n - 1) \cup {tk \o tx : tk \in WeekTokens, tx \in WeekTexts(n - 1)}

WeekValues ==
    {None, Bool(TRUE), Bool(FALSE)}
    \cup {Num(n) : n \in -1..3}
    \cup {Float(tn) : tn \in {-15, 0, 5, 10, 15, 19, 20, 25, 30}}
    \cup {Str(tx) : tx \in WeekTexts(MaxTokens)}

InitWeekType ==
    /\ raw \in WeekValues
    /\ result = NotCalled
    /\ IdleCal
    /\ IdleBot
    /\ IdleStore

\* result.recs holds the one value normalize_week_type(raw) returned
ApplyWeekType ==
    /\ result.st = "idle"
    /\ result' = Returned(<<normalize_week_type(raw)>>)
    /\ UNCHANGED <<raw, calVars, botVars, storeVars>>

NextWeekType == ApplyWeekType

SpecWeekType == InitWeekType /\ [][NextWeekType]_vars

\* the text names the numerator (the denominator), in any letter case
NamesOdd(x)  == Contains(lower(x.v), S_chisl) \/ Contains(lower(x.v), S_odd)
NamesEven(x) == Contains(lower(x.v), S_znam) \/ Contains(lower(x.v), S_even)

IsNumber(x) == x.t \in {"num", "float"}

\* C17 (as stated): None gives 'all'; the number 1 'odd', 2 'even', any other
\* number 'all'; every text with the numerator marker or 'odd' gives 'odd',
\* every text with the denominator marker or 'even' gives 'even', any other
\* text 'all'.
C17_WeekTypeAsStated ==
    result.st = "returned" =>
        /\ raw = None => Recs[1] = "all"
        /\ raw \in {Num(1), Float(10)} => Recs[1] = "odd"
        /\ raw \in {Num(2), Float(20)} => Recs[1] = "even"
        /\ (IsNumber(raw) /\ raw \notin {Num(1), Float(10), Num(2), Float(20)})
              => Recs[1] = "all"
        /\ (IsStr(raw) /\ NamesOdd(raw)) => Recs[1] = "odd"
        /\ (IsStr(raw) /\ NamesEven(raw)) => Recs[1] = "even"
        /\ (IsStr(raw) /\ ~NamesOdd(raw) /\ ~NamesEven(raw)) => Recs[1] = "all"

\* C17 (amended): None gives 'all'; a number (true and false counting as 1 and
\* 0) gives 'odd' when its integer part is 1, 'even' when it is 2, 'all'
\* otherwise; a text with the numerator marker or 'odd' gives 'odd', also when
\* it names the denominator too; a text with the denominator marker or 'even'
\* and without the numerator's gives 'even'; any other text gives 'all'.
C17_WeekTypeOddFirst ==
    result.st = "returned" =>
        /\ raw = None => Recs[1] = "all"
        /\ raw \in {Num(1), Bool(TRUE)} \cup {Float(tn) : tn \in 10..19}
              => Recs[1] = "odd"
        /\ raw \in {Num(2)} \cup {Float(tn) : tn \in 20..29} => Recs[1] = "even"
        /\ ((IsNumber(raw) \/ raw.t = "bool")
             /\ raw \notin {Num(1), Num(2), Bool(TRUE)} \cup {Float(tn) : tn \in 10..29})
              => Recs[1] = "all"
        /\ (IsStr(raw) /\ NamesOdd(raw)) => Recs[1] = "odd"
        /\ (IsStr(raw) /\ NamesEven(raw) /\ ~NamesOdd(raw)) => Recs[1] = "even"
        /\ (IsStr(raw) /\ ~NamesOdd(raw) /\ ~NamesEven(raw)) => Recs[1] = "all"

\* C17 witness: a text naming both the denominator and the numerator was
\* mapped to 'odd'
C17_Witness ==
    /\ result.st = "returned"
    /\ IsStr(raw)
    /\ NamesEven(raw)
    /\ NamesOdd(raw)
    /\ Recs = <<"odd">>

\* C28: normalize_week_type gives a week code written as a decimal string the
\* result it gives the integer: '1' is 'odd' and '2' is 'even', as 1 and 2
\* are, and '0' and '3' are 'all', as 0 and 3 are.
C28_StringCodeAsInteger ==
    result.st = "returned" =>
        \A n \in 0..3 :
            raw = Str(Digits(n)) => Recs[1] = normalize_week_type(Num(n))

(***************************************************************************)
(* SpecParseCell: _parse_cell_text applied to one cell text                *)
(***************************************************************************)
\* comma-separated pieces of a cell
MaxParts == 4

CellParts == {
    <<"l","k">>, <<"5","a","-","3">>, <<" ","F"," ","D",".","O",".">>,
    <<"P","s","y","h">>, <<" ">>, <<"1",".","5">>, <<"a","-","b"," ","c",".">> }

RECURSIVE Cells(_)
Cells(n) ==
    IF n = 0 THEN {<<>>}
    ELSE Cells(n - 1)
         \cup CellParts
         \cup {pt \o <<",">> \o cs : pt \in CellParts, cs \in Cells(n - 1) \ {<<>>}}

InitParseCell ==
    /\ raw \in {Str(cs) : cs \in Cells(MaxParts)}
    /\ result = NotCalled
    /\ IdleCal
    /\ IdleBot
    /\ IdleStore

\* result.recs holds the one tuple _parse_cell_text(raw) returned
ApplyParseCell ==
    /\ result.st = "idle"
    /\ result' = Returned(<<_parse_cell_text(raw.v)>>)
    /\ UNCHANGED <<raw, calVars, botVars, storeVars>>

NextParseCell == ApplyParseCell

SpecParseCell == InitParseCell /\ [][NextParseCell]_vars

\* the trimmed, non-empty tokens between the commas of a text
Tokens(cs) ==
    LET pieces == [i \in 1..Len(split(cs, ",")) |-> strip(split(cs, ",")[i])]
        Filled(x) == x /= <<>>
    IN  SelectSeq(pieces, Filled)

\* the least element of a set of indices; 0 for the empty set
First(S) == IF S = {} THEN 0 ELSE Min(S)

\* the tokens at the indices outside taken, in their order
Others(toks, taken) ==
    LET Free(i) == i \notin taken
        idx == SelectSeq([i \in 1..Len(toks) |-> i], Free)
    IN  [j \in 1..Len(idx) |-> toks[idx[j]]]

KindAt(toks) == IF toks /= <<>> /\ Len(toks[1]) <= 3 THEN 1 ELSE 0

RoomAt(toks) ==
    First({i \in 1..Len(toks) :
              /\ i /= KindAt(toks)
              /\ \E j \in 1..Len(toks[i]) : toks[i][j] \in DigitSet \cup {"-"}})

TeacherAt(toks) ==
    First({i \in 1..Len(toks) :
              /\ i \notin {KindAt(toks), RoomAt(toks)}
              /\ \E j \in 1..Len(toks[i]) : toks[i][j] = "."
              /\ \E j \in 1..Len(toks[i]) : toks[i][j] = " "})

TokenOrNone(toks, i) == IF i = 0 THEN None ELSE Str(toks[i])

\* C18: of the trimmed non-empty tokens between the commas, kind is the first
\* iff it has at most 3 characters; room the first other token with a digit
\* or a hyphen; teacher the first token still left with a period and a space;
\* title the tokens not taken, in order, joined by ', ', or absent when none
\* is left.
C18_CellFields ==
    result.st = "returned" =>
        LET toks == Tokens(raw.v)
        IN  /\ Recs[1].kind = TokenOrNone(toks, KindAt(toks))
            /\ Recs[1].room = TokenOrNone(toks, RoomAt(toks))
            /\ Recs[1].teacher = TokenOrNone(toks, TeacherAt(toks))
            /\ Recs[1].title =
                  (IF Others(toks, {KindAt(toks), RoomAt(toks), TeacherAt(toks)}) = <<>>
                   THEN None
                   ELSE Str(join(<<",", " ">>,
                                 Others(toks, {KindAt(toks), RoomAt(toks), TeacherAt(toks)}))))

\* C18 witness: a cell of kind, room, teacher and title, in the order of the
\* example, parsed into the four fields
C18_Witness ==
    /\ result.st = "returned"
    /\ raw = Str(<<"l","k",",","5","a","-","3",","," ","F"," ","D",".","O",".",
                   ",","P","s","y","h">>)
    /\ Recs[1] = [kind    |-> Str(<<"l","k">>),
                  room    |-> Str(<<"5","a","-","3">>),
                  teacher |-> Str(<<"F"," ","D",".","O",".">>),
                  title   |-> Str(<<"P","s","y","h">>)]

(***************************************************************************)
(* The slotted parser: weeks, times and order of its records               *)
(* (SpecNormalize)                                                         *)
(***************************************************************************)
\* the slots of a list of n elements in the order stated: the elements in
\* list order, within an element the pair indices 1..7 ascending, within a
\* pair index the key n<i> before z<i>
SlotsInOrder(n) ==
    [p \in 1..(14 * n) |-> [obj |-> ((p - 1) \div 14) + 1,
                            idx |-> (((p - 1) % 14) \div 2) + 1,
                            key |-> IF p % 2 = 1 THEN "n" ELSE "z"]]

\* the slot is a cell of a day-object of raw that holds a text with a token
FilledSlot(p) ==
    /\ IsDayObject(raw.v[p.obj])
    /\ IsStr(DictGet(raw.v[p.obj], p.key \o ToString(p.idx), None))
    /\ Tokens(DictGet(raw.v[p.obj], p.key \o ToString(p.idx), None).v) /= <<>>

\* C23: the slotted parser returns one record per filled cell, in the order
\* day-objects in list order, then pair index 1..7, then n before z; the
\* record of n<i> has week 'odd' and that of z<i> week 'even' (never 'all'),
\* and its start and end are the PAIR_TIMES entry of i.
C23_SlottedWeekTimeOrder ==
    (result.st = "returned" /\ is_slotted(raw)) =>
        LET at == SelectSeq(SlotsInOrder(Len(raw.v)), FilledSlot)
        IN  /\ Len(Recs) = Len(at)
            /\ \A i \in 1..Len(Recs) :
                  /\ Recs[i].week = (IF at[i].key = "n" THEN "odd" ELSE "even")
                  /\ Recs[i].week /= "all"
                  /\ Recs[i].start = Str(PAIR_TIMES[at[i].idx][1])
                  /\ Recs[i].end = Str(PAIR_TIMES[at[i].idx][2])
                  /\ Recs[i].day.v \in TableDays(NameOf(raw.v[at[i].obj]))

\* C23 witness: the records of n1, z1 (holding the same text), then of a
\* second day-object's z1 and n2, in that order
C23_Witness ==
    /\ result.st = "returned"
    /\ is_slotted(raw)
    /\ Len(Recs) = 4
    /\ <<Recs[1].week, Recs[2].week, Recs[3].week, Recs[4].week>>
          = <<"odd", "even", "even", "odd">>
    /\ [Recs[1] EXCEPT !.week = "even"] = Recs[2]
    /\ Recs[3].start = Str(PAIR_TIMES[1][1])
    /\ Recs[4].start = Str(PAIR_TIMES[2][1])
    /\ Recs[4].end = Str(PAIR_TIMES[2][2])

(***************************************************************************)
(* storage/db.py, cli.py, bulk_parse.py: saving lessons through one        *)
(* sqlite3 connection.  A DELETE or INSERT opens a transaction that         *)
(* conn.commit() makes durable; conn.close() and the end of the process    *)
(* drop what was not committed.  table holds the committed rows, conn the  *)
(* rows as the connection sees them (the two differ while a transaction is *)
(* open).  Rows of a group are kept in the order of their insertion.       *)
(***************************************************************************)
\* groups of the harvested institutes
MaxGroups == 3

\* calls of Database.replace_lessons on one Database object
MaxCalls == 2

GroupIds == [i \in 1..MaxGroups |-> "g" \o ToString(i)]

\* get_groups answers with the groups two by two: the groups of one
\* (institute, form) of harvest_all, of one form of dump_all/_dump_institute
NBatches == (MaxGroups + 1) \div 2

BatchOf(b) ==
    SubSeq(GroupIds, 2 * b - 1, IF 2 * b <= MaxGroups THEN 2 * b ELSE MaxGroups)

\* sqlite3 binds None, int, float, str; a list or a dict raises at its row
bindable(x) == ~IsList(x) /\ ~IsDict(x)

\* int(x) raises TypeError for None, a list or a dict and ValueError for a
\* text that is no number
int_raises(x) == x = None \/ IsList(x) \/ IsDict(x) \/ (IsStr(x) /\ ~isdigit(x.v))

int_arg(x) == IF IsStr(x) THEN ParseInt(x.v) ELSE int_of(x)

\* the parameter tuple of cli.py lines 280-290 (bulk_parse.py lines 88-98
\* build the same one with kind and week swapped); every record of
\* normalize_schedule has the eight keys, so no default of .get is used
lesson_row(x) ==
    [day        |-> Num(int_arg(x.day)),
     time_start |-> x.start,
     time_end   |-> x.end,
     title      |-> x.title,
     teacher    |-> x.teacher,
     room       |-> x.room,
     kind       |-> x.kind,
     week       |-> x.week]

\* the row is accepted by table lessons of cli.py lines 222-235 and
\* bulk_parse.py lines 37-47: day, time_start, time_end NOT NULL, week
\* NOT NULL and one of the three
row_ok(r) ==
    /\ \A f \in {"time_start", "time_end", "title", "teacher", "room", "kind"} :
          bindable(r[f])
    /\ r.time_start /= None
    /\ r.time_end /= None
    /\ r.week \in {"all", "odd", "even"}

\* the rows executemany inserts before a row is refused
RECURSIVE inserted(_)
inserted(rows) ==
    IF rows = <<>> \/ ~row_ok(Head(rows)) THEN <<>>
    ELSE <<Head(rows)>> \o inserted(Tail(rows))

\* _db_save_lessons(conn, group_id, lessons) on a connection that sees v:
\* whether it raised, and what the connection sees afterwards.  When it did
\* not raise, line 294 has committed that view.
_db_save_lessons(v, group_id, lessons) ==
    IF \E i \in 1..Len(lessons) : int_raises(lessons[i].day)
    THEN [raised |-> TRUE, view |-> [v EXCEPT ![group_id] = <<>>]]
    ELSE IF inserted([i \in 1..Len(lessons) |-> lesson_row(lessons[i])])
               /= [i \in 1..Len(lessons) |-> lesson_row(lessons[i])]
    THEN [raised |-> TRUE,
          view |-> [v EXCEPT ![group_id] =
                       inserted([i \in 1..Len(lessons) |-> lesson_row(lessons[i])])]]
    ELSE [raised |-> FALSE,
          view |-> [v EXCEPT ![group_id] =
                       [i \in 1..Len(lessons) |-> lesson_row(lessons[i])]]]

\* bulk_parse.db_save_lessons: the same statements as cli._db_save_lessons
db_save_lessons(v, group_id, lessons) ==
    IF \E i \in 1..Len(lessons) : int_raises(lessons[i].day)
    THEN [raised |-> TRUE, view |-> [v EXCEPT ![group_id] = <<>>]]
    ELSE IF inserted([i \in 1..Len(lessons) |-> lesson_row(lessons[i])])
               /= [i \in 1..Len(lessons) |-> lesson_row(lessons[i])]
    THEN [raised |-> TRUE,
          view |-> [v EXCEPT ![group_id] =
                       inserted([i \in 1..Len(lessons) |-> lesson_row(lessons[i])])]]
    ELSE [raised |-> FALSE,
          view |-> [v EXCEPT ![group_id] =
                       [i \in 1..Len(lessons) |-> lesson_row(lessons[i])]]]

\* the parameter tuple of db.py lines 71-74
replace_row(l) ==
    [day     |-> l.day,
     start   |-> l.start,
     end     |-> l.end,
     title   |-> l.title,
     teacher |-> l.teacher,
     room    |-> l.room,
     kind    |-> l.kind,
     week    |-> l.week]

\* table lessons of db.py lines 29-41: every column but group_id may be
\* NULL, week is one of the three
replace_row_ok(r) ==
    /\ \A f \in {"day", "start", "end", "title", "teacher", "room", "kind"} :
          bindable(r[f])
    /\ r.week \in {"all", "odd", "even"}

RECURSIVE replace_inserted(_)
replace_inserted(rows) ==
    IF rows = <<>> \/ ~replace_row_ok(Head(rows)) THEN <<>>
    ELSE <<Head(rows)>> \o replace_inserted(Tail(rows))

\* Database.replace_lessons(group_id, lessons) for a group that table groups
\* holds (the foreign key of line 40 is satisfied)
replace_lessons(v, group_id, lessons) ==
    IF replace_inserted([i \in 1..Len(lessons) |-> replace_row(lessons[i])])
          /= [i \in 1..Len(lessons) |-> replace_row(lessons[i])]
    THEN [raised |-> TRUE,
          view |-> [v EXCEPT ![group_id] =
                       replace_inserted([i \in 1..Len(lessons) |-> replace_row(lessons[i])])]]
    ELSE [raised |-> FALSE,
          view |-> [v EXCEPT ![group_id] =
                       [i \in 1..Len(lessons) |-> replace_row(lessons[i])]]]

\* the save the program calls
save_lessons(prog, v, group_id, lessons) ==
    CASE prog = "harvest_all"     -> db_save_lessons(v, group_id, lessons)
      [] prog = "replace_lessons" -> replace_lessons(v, group_id, lessons)
      [] OTHER                    -> _db_save_lessons(v, group_id, lessons)

\* the position after the current group: the next group of the batch, or the
\* get_groups call of the next batch (i = 0)
advance(r) ==
    IF r.i < Len(BatchOf(r.b)) THEN [r EXCEPT !.i = r.i + 1]
    ELSE [r EXCEPT !.b = r.b + 1, !.i = 0]

logged(r, group_id, outcome, before, lessons) ==
    [r EXCEPT !.log = Append(r.log, [batch |-> r.b, group |-> group_id,
                                     outcome |-> outcome,
                                     before |-> before, lessons |-> lessons])]

\* mutant: a failed fetch ends the loops
fetch_failed_Stops(r) ==
    [logged(r, BatchOf(r.b)[r.i], "fetch_failed", table[BatchOf(r.b)[r.i]], <<>>)
        EXCEPT !.b = NBatches + 1, !.i = 0]

\* the except branches of bulk_parse.py lines 141-143 and cli.py lines
\* 417-419, 486-488: a message, then continue
fetch_failed(r) ==
    advance(logged(r, BatchOf(r.b)[r.i], "fetch_failed", table[BatchOf(r.b)[r.i]], <<>>))

(***************************************************************************)
(* SpecHarvest: one run of harvest_all, dump_all or _dump_institute over   *)
(* the batches, or a series of Database.replace_lessons calls on one       *)
(* Database object                                                         *)
(***************************************************************************)
Programs == {"harvest_all", "dump_all", "_dump_institute", "replace_lessons"}

\* what the upstream answers to GetGroupSchedule
Payloads == {
    List(<<DayObj(Str(S_Lessons), T_Mon, Str(<<"l","k",","," ","M">>), TRUE)>>),
    Dict(<< <<"Title", T_M>> >>),
    List(<< Dict(<< <<"Title", T_M>>, <<"Day", Num(3)>>,
                    <<"Start", T_0830>>, <<"End", T_1000>> >>),
            Dict(<< <<"Title", T_M>>, <<"Day", Num(3)>> >>) >>),
    Num(5),
    Dict(<< <<"Title", List(<<T_M>>)>> >>) }

\* what get_schedule makes of them: normalize_schedule(data), vlsu_api.py
\* line 116
Answers == {normalize_schedule(p) : p \in Payloads}

\* rows stored by an earlier run
OldRows(prog) ==
    IF prog = "replace_lessons"
    THEN <<[day |-> Num(5), start |-> T_0830, end |-> T_1000, title |-> T_Other,
            teacher |-> None, room |-> None, kind |-> None, week |-> "all"]>>
    ELSE <<[day |-> Num(5), time_start |-> T_0830, time_end |-> T_1000,
            title |-> T_Other, teacher |-> None, room |-> None, kind |-> None,
            week |-> "all"]>>

GroupSet == {GroupIds[i] : i \in 1..MaxGroups}

InitHarvest ==
    /\ \E prog \in Programs :
          /\ run = [prog |-> prog, b |-> 1,
                    i |-> IF prog = "replace_lessons" THEN 1 ELSE 0,
                    phase |-> "running", log |-> <<>>]
          /\ table \in {[g \in GroupSet |-> OldRows(prog)],
                        [g \in GroupSet |-> IF g = GroupIds[1] THEN <<>>
                                            ELSE OldRows(prog)]}
    /\ conn = table
    /\ IdleCal
    /\ IdleNorm
    /\ IdleBot

Harvesting == run.phase = "running" /\ run.prog /= "replace_lessons"

\* get_groups for the next batch (bulk_parse.py lines 127-131, cli.py lines
\* 402-406 and 474-478): it raises and the batch is skipped, or it answers
GetGroups ==
    /\ Harvesting
    /\ run.b <= NBatches
    /\ run.i = 0
    /\ \/ run' = [logged(run, "", "groups_failed", <<>>, <<>>) EXCEPT !.b = run.b + 1]
       \/ run' = [run EXCEPT !.i = 1]
    /\ UNCHANGED <<table, conn, calVars, normVars, botVars>>

\* one pass of the loop over the groups in which get_schedule raises: the
\* request fails or normalize_schedule raises on the answer.  harvest_all has
\* saved the group before (line 136), which commits.
ScheduleFails ==
    /\ Harvesting
    /\ run.i >= 1
    /\ run' = fetch_failed(run)
    /\ table' = (IF run.prog = "harvest_all" THEN conn ELSE table)
    /\ UNCHANGED <<conn, calVars, normVars, botVars>>

\* one pass of the loop over the groups in which get_schedule answers:
\* harvest_all saves the group (commit) and the lessons, an error of the save
\* ending the run; dump_all and _dump_institute save the group (commit) and
\* the lessons inside try/except, an error being reported and the loop going
\* on
ScheduleSaved ==
    /\ Harvesting
    /\ run.i >= 1
    /\ \E a \in Answers :
          /\ a.st = "returned"
          /\ LET g    == BatchOf(run.b)[run.i]
                 recs == a.recs
                 res  == save_lessons(run.prog, conn, g, recs)
             IN  IF ~res.raised
                 THEN /\ table' = res.view
                      /\ conn' = res.view
                      /\ run' = advance(logged(run, g, "saved", table[g], recs))
                 ELSE IF run.prog = "harvest_all"
                 THEN /\ table' = conn
                      /\ conn' = conn
                      /\ run' = [logged(run, g, "save_failed", table[g], recs)
                                    EXCEPT !.phase = "crashed"]
                 ELSE /\ table' = conn
                      /\ conn' = res.view
                      /\ run' = advance(logged(run, g, "save_failed", table[g], recs))
    /\ UNCHANGED <<calVars, normVars, botVars>>

\* conn.close() after the loops (bulk_parse.py line 151, cli.py lines 450-451
\* and 516): what was not committed is dropped
Close ==
    /\ Harvesting
    /\ run.b > NBatches
    /\ run' = [run EXCEPT !.phase = "closed"]
    /\ conn' = table
    /\ UNCHANGED <<table, calVars, normVars, botVars>>

\* Database.replace_lessons(g, lessons) for any group and any list of
\* records, not caught by the caller
ReplaceLessons ==
    /\ run.phase = "running"
    /\ run.prog = "replace_lessons"
    /\ run.i <= MaxCalls
    /\ \E g \in GroupSet, a \in Answers :
          /\ a.st = "returned"
          /\ LET recs == a.recs
                 res  == save_lessons(run.prog, conn, g, recs)
             IN  IF ~res.raised
                 THEN /\ table' = res.view
                      /\ conn' = res.view
                      /\ run' = [logged(run, g, "saved", table[g], recs)
                                    EXCEPT !.i = run.i + 1]
                 ELSE /\ table' = table
                      /\ conn' = table
                      /\ run' = [logged(run, g, "save_failed", table[g], recs)
                                    EXCEPT !.phase = "crashed"]
    /\ UNCHANGED <<calVars, normVars, botVars>>

\* Database.close()
CloseDatabase ==
    /\ run.phase = "running"
    /\ run.prog = "replace_lessons"
    /\ run' = [run EXCEPT !.phase = "closed"]
    /\ conn' = table
    /\ UNCHANGED <<table, calVars, normVars, botVars>>

NextHarvest ==
    \/ GetGroups
    \/ ScheduleFails
    \/ ScheduleSaved
    \/ Close
    \/ ReplaceLessons
    \/ CloseDatabase

SpecHarvest == InitHarvest /\ [][NextHarvest]_vars

\* the loops run on: every step of a run that has not ended is taken
SpecHarvestLive == SpecHarvest /\ WF_vars(NextHarvest)

(***************************************************************************)
(* Claims about the saves and the harvests (SpecHarvest)                   *)
(***************************************************************************)
\* the last entry of the log
LastLog(r) == r.log[Len(r.log)]

\* this step handled a group with the given outcome
Handled(outcome) ==
    /\ Len(run'.log) = Len(run.log) + 1
    /\ LastLog(run').outcome = outcome

\* the rows that hold exactly the records of a list, one row per record
StoredAs(prog, recs) ==
    [i \in 1..Len(recs) |->
        IF prog = "replace_lessons"
        THEN [day |-> recs[i].day, start |-> recs[i].start, end |-> recs[i].end,
              title |-> recs[i].title, teacher |-> recs[i].teacher,
              room |-> recs[i].room, kind |-> recs[i].kind, week |-> recs[i].week]
        ELSE [day |-> recs[i].day, time_start |-> recs[i].start,
              time_end |-> recs[i].end, title |-> recs[i].title,
              teacher |-> recs[i].teacher, room |-> recs[i].room,
              kind |-> recs[i].kind, week |-> recs[i].week]]

Max(S) == CHOOSE x \in S : \A y \in S : y <= x

\* the log entries of successful saves for a group
SavesOf(g) == {k \in 1..Len(run.log) :
                  run.log[k].group = g /\ run.log[k].outcome = "saved"}

\* C21: after a successful save of a list for a group the committed rows of
\* that group are exactly the records of the list, one row per record, and
\* the committed rows of every other group are what they were; after any
\* sequence of saves the rows of a group are the last list saved for it.
C21_SaveIsFullReplace ==
    /\ [][Handled("saved") =>
            /\ table'[LastLog(run').group] = StoredAs(run.prog, LastLog(run').lessons)
            /\ \A h \in GroupSet \ {LastLog(run').group} : table'[h] = table[h]]_vars
    /\ [](\A g \in GroupSet :
            SavesOf(g) /= {} =>
                table[g] = StoredAs(run.prog, run.log[Max(SavesOf(g))].lessons))

\* every group of every batch that get_groups answered has been handled
AllHandled ==
    \A b \in 1..NBatches :
        \/ \E k \in 1..Len(run.log) :
              run.log[k].outcome = "groups_failed" /\ run.log[k].batch = b
        \/ \A i \in 1..Len(BatchOf(b)) :
              \E k \in 1..Len(run.log) : run.log[k].group = BatchOf(b)[i]

C25_FailedSaveKeepsOldRows ==
    (run.prog \in {"dump_all", "_dump_institute"} /\ run.phase = "closed") =>
        \A k \in 1..Len(run.log) :
            run.log[k].outcome = "save_failed"
                => table[run.log[k].group] = run.log[k].before

(***************************************************************************)
(* bot.py: the database the handlers read, and the handlers                *)
(***************************************************************************)
Chats == {1}

\* table institutes: <<id, name>>
DB_INSTITUTES == << <<"i1", "Inst1">>, <<"i2", "Inst2">> >>

\* table groups: id, name (its characters), institute_id, and the number its
\* course text starts with ("1 ..." is 1); rows in ORDER BY name
DB_GROUPS == <<
    [id |-> "g1", name |-> <<"K","P","-","1">>, institute_id |-> "i1", course |-> 1],
    [id |-> "g2", name |-> <<"K","P","-","2">>, institute_id |-> "i2", course |-> 2] >>

\* table lessons.  time_start is the pair index i of PAIR_TIMES, standing for
\* the start time of pair i (the start times of PAIR_TIMES sort as their
\* indices do)
DB_LESSONS == {
    [group_id |-> "g1", day |-> 1, time_start |-> 1, title |-> "A", week |-> "all"],
    [group_id |-> "g1", day |-> 1, time_start |-> 2, title |-> "B", week |-> "odd"],
    [group_id |-> "g1", day |-> 1, time_start |-> 3, title |-> "C", week |-> "even"],
    [group_id |-> "g1", day |-> 1, time_start |-> 1, title |-> "G", week |-> "odd"],
    [group_id |-> "g1", day |-> 1, time_start |-> 3, title |-> "H", week |-> "all"],
    [group_id |-> "g1", day |-> 3, time_start |-> 1, title |-> "D", week |-> "even"],
    [group_id |-> "g2", day |-> 1, time_start |-> 1, title |-> "E", week |-> "odd"],
    [group_id |-> "g2", day |-> 2, time_start |-> 2, title |-> "F", week |-> "all"] }

NoneStr == "None"     \* None, where the field otherwise holds a str
NoneInt == 0          \* None, where the field otherwise holds a positive int
NoneName == <<>>      \* None, where the field otherwise holds the characters of a name

\* Profile()
Profile == [institute_id |-> NoneStr, institute_name |-> NoneStr,
            course_num |-> NoneInt, group_id |-> NoneStr, group_name |-> NoneName]

q_groups_by_institute(institute_id) ==
    LET T(g) == g.institute_id = institute_id IN SelectSeq(DB_GROUPS, T)

q_groups_by_institute_course(institute_id, course_num) ==
    LET T(g) == g.institute_id = institute_id /\ g.course = course_num
    IN  SelectSeq(DB_GROUPS, T)

q_courses_for_institute(institute_id) ==
    {DB_GROUPS[i].course : i \in {j \in 1..Len(DB_GROUPS) :
                                     DB_GROUPS[j].institute_id = institute_id}}

\* s.replace(" ", "")
RECURSIVE without_spaces(_)
without_spaces(cs) ==
    IF cs = <<>> THEN <<>>
    ELSE (IF Head(cs) = " " THEN <<>> ELSE <<Head(cs)>>) \o without_spaces(Tail(cs))

\* norm(s)
norm(cs) == lower(strip(cs))

q_find_groups_by_name(name_like) ==
    LET q    == without_spaces(norm(name_like))
        T(g) == Contains(without_spaces(lower(g.name)), q)
    IN  SelectSeq(DB_GROUPS, T)

\* the rows of a set, one after another (the order SQLite gives rows of equal
\* time_start is not fixed by the query; one order stands for it)
RECURSIVE in_some_order(_)
in_some_order(rows) ==
    IF rows = {} THEN <<>>
    ELSE <<CHOOSE r \in rows : TRUE>>
         \o in_some_order(rows \ {CHOOSE r \in rows : TRUE})

\* the rows of a set of lessons in ORDER BY time_start
RECURSIVE by_time_start(_, _)
by_time_start(rows, i) ==
    IF i > 7 THEN <<>>
    ELSE in_some_order({r \in rows : r.time_start = i}) \o by_time_start(rows, i + 1)

\* mutant: the rows of every week returned (the branch of lines 183-194)
q_lessons_for_day_AllWeeks(group_id, day, parity) ==
    by_time_start({r \in DB_LESSONS : r.group_id = group_id /\ r.day = day}, 1)

\* q_lessons_for_day with parity 'odd' or 'even' (the branch of lines 171-181,
\* the only one show_week_common reaches)
q_lessons_for_day(group_id, day, parity) ==
    by_time_start({r \in DB_LESSONS :
                      /\ r.group_id = group_id
                      /\ r.day = day
                      /\ (r.week = "all" \/ r.week = parity)}, 1)

q_lessons_for_week(group_id, parity) ==
    [dd \in 1..7 |-> q_lessons_for_day(group_id, dd, parity)]

\* what a handler last sent to the chat or asked Telegram to show there
\* handler is the handler that answered; asked the date of its week:<date>
\* callback (0 when there is none or it is no date), keyboard the dates of the
\* week:<date> buttons under the message
Shown(kind) == [kind |-> kind, week_start |-> 0, status |-> "", parity |-> "",
                group_id |-> NoneStr, by_day |-> <<>>,
                handler |-> "", asked |-> 0, keyboard |-> {}]

By(handler, shown) == [shown EXCEPT !.handler = handler]

\* the dates of the buttons of kb_week_nav(week_start): previous, home, next
kb_week_nav(week_start) ==
    {week_start - 7, monday_of_week(today), week_start + 7}

\* mutant: 'rc' given the odd subset instead
shown_parity_RcOdd(st) == IF st = "even" THEN "even" ELSE "odd"

\* line 453: parity = "odd" if status == "odd" else "even"
shown_parity(st) == IF st = "odd" THEN "odd" ELSE "even"

\* mutant: 'rc' left out of the statuses that show lessons
shows_lessons_NoRc(st) == st \in {"odd", "even"}

\* line 434, negated: status in ("odd", "even", "rc")
shows_lessons(st) == st \in {"odd", "even", "rc"}

\* show_week_common(c, week_start): what it shows, given PROFILES as profiles
show_week_common(profiles, chat, week_start) ==
    IF chat \notin DOMAIN profiles \/ profiles[chat].group_id = NoneStr
    THEN [Shown("alert_select_group") EXCEPT !.week_start = week_start]
    ELSE IF ~shows_lessons(get_week_status(week_start))
    THEN [Shown("no_classes") EXCEPT !.week_start = week_start,
                                     !.status = get_week_status(week_start),
                                     !.group_id = profiles[chat].group_id,
                                     !.keyboard = kb_week_nav(week_start)]
    ELSE [kind       |-> "week",
          handler    |-> "",
          asked      |-> 0,
          keyboard   |-> kb_week_nav(week_start),
          week_start |-> week_start,
          status     |-> get_week_status(week_start),
          parity     |-> shown_parity(get_week_status(week_start)),
          group_id   |-> profiles[chat].group_id,
          by_day     |-> q_lessons_for_week(profiles[chat].group_id,
                                            shown_parity(get_week_status(week_start)))]

\* PROFILES.get(chat) or Profile()
profile_of(chat) == IF chat \in DOMAIN PROFILES THEN PROFILES[chat] ELSE Profile

\* LISTS_CACHE.get(chat, {}).get(key, [])
cached(chat, key) ==
    IF chat \in DOMAIN LISTS_CACHE /\ key \in DOMAIN LISTS_CACHE[chat]
    THEN LISTS_CACHE[chat][key] ELSE <<>>

\* next((n for i, n in rows if i == id), id): names of institutes are whole strings
inst_name_of(inst_id) ==
    IF \E i \in 1..Len(DB_INSTITUTES) : DB_INSTITUTES[i][1] = inst_id
    THEN DB_INSTITUTES[CHOOSE i \in 1..Len(DB_INSTITUTES) : DB_INSTITUTES[i][1] = inst_id][2]
    ELSE inst_id

\* next((n for i, n, _ in groups if i == gid), gid); the id, when it is the
\* default, is kept whole as the only element of the name
group_name_of(groups, gid) ==
    IF \E i \in 1..Len(groups) : groups[i].id = gid
    THEN groups[CHOOSE i \in 1..Len(groups) : groups[i].id = gid].name
    ELSE <<gid>>

on_start(chat) ==
    /\ PROFILES' = (chat :> profile_of(chat)) @@ PROFILES
    /\ screen' = [screen EXCEPT ![chat] = By("on_start", Shown("menu"))]
    /\ UNCHANGED <<LISTS_CACHE, today>>

\* mutant: the group of the profile kept when an institute is selected
pick_inst_KeepsGroup(chat, inst_id) ==
    /\ PROFILES' = (chat :> [profile_of(chat) EXCEPT
                                !.institute_id = inst_id,
                                !.institute_name = inst_name_of(inst_id),
                                !.course_num = NoneInt]) @@ PROFILES
    /\ LISTS_CACHE' = (chat :> [k \in {"groups_all"} |-> q_groups_by_institute(inst_id)])
                      @@ LISTS_CACHE
    /\ screen' = [screen EXCEPT ![chat] = By("pick_inst", Shown("menu"))]
    /\ UNCHANGED today

pick_inst(chat, inst_id) ==
    /\ PROFILES' = (chat :> [profile_of(chat) EXCEPT
                                !.institute_id = inst_id,
                                !.institute_name = inst_name_of(inst_id),
                                !.course_num = NoneInt,
                                !.group_id = NoneStr,
                                !.group_name = NoneName]) @@ PROFILES
    /\ LISTS_CACHE' = (chat :> [k \in {"groups_all"} |-> q_groups_by_institute(inst_id)])
                      @@ LISTS_CACHE
    /\ screen' = [screen EXCEPT ![chat] = By("pick_inst", Shown("menu"))]
    /\ UNCHANGED today

\* pick_course with callback data course:<sel>; sel 0 stands for "all"
pick_course(chat, sel) ==
    IF profile_of(chat).institute_id = NoneStr
    THEN /\ screen' = [screen EXCEPT ![chat] = By("pick_course", Shown("alert_select_institute"))]
         /\ UNCHANGED <<PROFILES, LISTS_CACHE, today>>
    ELSE /\ PROFILES' = (chat :> [profile_of(chat) EXCEPT !.course_num = sel]) @@ PROFILES
         /\ IF chat \in DOMAIN LISTS_CACHE
            THEN /\ LISTS_CACHE' =
                      [LISTS_CACHE EXCEPT ![chat] =
                          ("groups" :> (IF sel = 0
                                        THEN q_groups_by_institute(profile_of(chat).institute_id)
                                        ELSE q_groups_by_institute_course(
                                                 profile_of(chat).institute_id, sel)))
                          @@ LISTS_CACHE[chat]]
                 /\ screen' = [screen EXCEPT ![chat] = By("pick_course", Shown("menu"))]
            ELSE /\ LISTS_CACHE' = LISTS_CACHE          \* line 341 raises KeyError
                 /\ screen' = [screen EXCEPT ![chat] = By("pick_course", Shown("KeyError"))]
         /\ UNCHANGED today

group_page(chat) ==
    /\ screen' = [screen EXCEPT ![chat] = By("group_page", Shown("menu"))]
    /\ UNCHANGED <<PROFILES, LISTS_CACHE, today>>

\* the profile pick_group stores (lines 376-383), given LISTS_CACHE as the
\* lists of the chat
picked(chat, gid, groups, groups_all) ==
    [profile_of(chat) EXCEPT
        !.group_id = gid,
        !.group_name = group_name_of(IF groups /= <<>> THEN groups ELSE groups_all, gid)]

pick_group(chat, gid) ==
    /\ PROFILES' = (chat :> picked(chat, gid, cached(chat, "groups"),
                                   cached(chat, "groups_all"))) @@ PROFILES
    /\ screen' = [screen EXCEPT ![chat] =
                      By("pick_group", show_week_common(PROFILES', chat, monday_of_week(today)))]
    /\ UNCHANGED <<LISTS_CACHE, today>>

free_text_pick_group(chat, query) ==
    /\ Len(strip(query)) >= 2
    /\ IF q_find_groups_by_name(strip(query)) = <<>>
       THEN /\ screen' = [screen EXCEPT ![chat] = By("free_text_pick_group", Shown("reply"))]
            /\ UNCHANGED <<PROFILES, LISTS_CACHE, today>>
       ELSE IF Len(q_find_groups_by_name(strip(query))) = 1
       THEN /\ LISTS_CACHE' =
                  (chat :> [k \in {"groups_all"} |-> q_find_groups_by_name(strip(query))])
                  @@ LISTS_CACHE
            /\ PROFILES' =
                  (chat :> picked(chat, q_find_groups_by_name(strip(query))[1].id,
                                  <<>>, q_find_groups_by_name(strip(query)))) @@ PROFILES
            /\ screen' = [screen EXCEPT ![chat] =
                              By("free_text_pick_group", show_week_common(PROFILES', chat,
                                                        monday_of_week(today)))]
            /\ UNCHANGED today
       ELSE /\ screen' = [screen EXCEPT ![chat] = By("free_text_pick_group", Shown("reply"))]
            /\ UNCHANGED <<PROFILES, LISTS_CACHE, today>>

\* lines 417-421: the date of the callback data, or the current Monday when
\* the data is no ISO date (asked = 0)
parsed_week(asked) == IF asked = 0 THEN monday_of_week(today) ELSE asked

\* navigate_week with callback data week:<asked>
navigate_week(chat, asked) ==
    /\ screen' = [screen EXCEPT ![chat] =
                      By("navigate_week",
                         [show_week_common(PROFILES, chat, parsed_week(asked))
                             EXCEPT !.asked = asked])]
    /\ UNCHANGED <<PROFILES, LISTS_CACHE, today>>

\* navigate_week with callback data that is no ISO date (lines 420-421)
navigate_week_unparsable(chat) == navigate_week(chat, 0)

change_group(chat) == on_start(chat)

(***************************************************************************)
(* SpecBot: updates from the chats, one handler at a time                  *)
(***************************************************************************)
\* the weeks a chat may page away from the current one
MaxWeeks == 1

\* tznow().date() in the runs checked: the first Wednesday of the semester
\* (the week before it is 'before'), the Wednesday before the first
\* rating-control week, the Wednesday after the November holiday, and the
\* Wednesday of the vacation week (the week before it is 'exam')
Todays == {date(2025, 9, 3), date(2025, 9, 24), date(2025, 11, 5), date(2026, 1, 28)}

Queries == { <<"k","p">>, <<"-"," ","1">>, <<"K","P","-","2"," ">>, <<"z","z">>, <<"1">> }

InRange(week_start) ==
    /\ week_start >= monday_of_week(today) - 7 * MaxWeeks
    /\ week_start <= monday_of_week(today) + 7 * MaxWeeks

\* every week:<date> button sent to the chat stays there to be pressed
Sent(c) == keyboards' = [keyboards EXCEPT ![c] = @ \cup screen'[c].keyboard]

InitBot ==
    /\ keyboards = [c \in Chats |-> {}]
    /\ tasks = <<>>
    /\ PROFILES = <<>>
    /\ LISTS_CACHE = <<>>
    /\ screen = [c \in Chats |-> Shown("none")]
    /\ today \in Todays
    /\ IdleCal
    /\ IdleNorm
    /\ IdleStore

OnStart == \E c \in Chats : on_start(c) /\ Sent(c) /\ UNCHANGED <<calVars, normVars, storeVars, tasks>>

PickInst ==
    \E c \in Chats, i \in 1..Len(DB_INSTITUTES) :
        pick_inst(c, DB_INSTITUTES[i][1]) /\ Sent(c) /\ UNCHANGED <<calVars, normVars, storeVars, tasks>>

PickCourse ==
    \E c \in Chats, sel \in {0} \cup {DB_GROUPS[i].course : i \in 1..Len(DB_GROUPS)} :
        pick_course(c, sel) /\ Sent(c) /\ UNCHANGED <<calVars, normVars, storeVars, tasks>>

GroupPage == \E c \in Chats : group_page(c) /\ Sent(c) /\ UNCHANGED <<calVars, normVars, storeVars, tasks>>

PickGroup ==
    \E c \in Chats, i \in 1..Len(DB_GROUPS) :
        pick_group(c, DB_GROUPS[i].id) /\ Sent(c) /\ UNCHANGED <<calVars, normVars, storeVars, tasks>>

FreeText ==
    \E c \in Chats, q \in Queries :
        free_text_pick_group(c, q) /\ Sent(c) /\ UNCHANGED <<calVars, normVars, storeVars, tasks>>

NavigateWeek ==
    \E c \in Chats :
        /\ \E ws \in keyboards[c] :
              /\ InRange(ws)
              /\ navigate_week(c, ws)
        /\ Sent(c) /\ UNCHANGED <<calVars, normVars, storeVars, tasks>>

NavigateWeekUnparsable ==
    \E c \in Chats : navigate_week_unparsable(c) /\ Sent(c) /\ UNCHANGED <<calVars, normVars, storeVars, tasks>>

ChangeGroup == \E c \in Chats : change_group(c) /\ Sent(c) /\ UNCHANGED <<calVars, normVars, storeVars, tasks>>

NextBot ==
    \/ OnStart
    \/ PickInst
    \/ PickCourse
    \/ GroupPage
    \/ PickGroup
    \/ FreeText
    \/ NavigateWeek
    \/ NavigateWeekUnparsable
    \/ ChangeGroup

SpecBot == InitBot /\ [][NextBot]_vars

(***************************************************************************)
(* SpecTasks: the handlers of two chats as asyncio tasks.  The event loop  *)
(* runs one task at a time and switches only where a task awaits; a step   *)
(* is the code of one handler between two awaits.  Only what touches       *)
(* PROFILES and LISTS_CACHE is kept: group_page and navigate_week write    *)
(* neither.  A Profile is one object per chat: the handlers that hold it   *)
(* over an await (pick_course) got it from PROFILES, where an entry, once  *)
(* stored, is never replaced by another object, so a write through prof is *)
(* a write to PROFILES[chat].                                              *)
(***************************************************************************)
\* the updates that arrive in a run
MaxUpdates == 4

TaskChats == {1, 2}

\* course:all (0) and course:1
TaskCourses == {0, 1}

TaskQueries == { <<"k","p">>, <<"-"," ","1">>, <<"1">> }

\* a suspended task: its handler, the line it resumes at, and its locals
Task(chat, handler, line) ==
    [chat |-> chat, handler |-> handler, line |-> line,
     inst_id |-> NoneStr, sel |-> 0, query |-> <<>>, groups |-> <<>>]

\* the step just run: the chat whose update it handles, the handler, and the
\* exception it raised, if any
Step(chat, handler, raised) == [chat |-> chat, handler |-> handler, raised |-> raised]

Suspended == tasks.pending

\* an update arrived and its handler ran up to an await: t is suspended
awaits(t, step) ==
    tasks' = [pending |-> Suspended \cup {t}, ran |-> step,
              updates |-> tasks.updates + 1]

\* the loop resumed t, which runs to t2's await
resumes(t, t2, step) ==
    tasks' = [tasks EXCEPT !.pending = (Suspended \ {t}) \cup {t2}, !.ran = step]

\* the loop ran t to where it touches the two dictionaries no more
ends(t, step) == tasks' = [tasks EXCEPT !.pending = Suspended \ {t}, !.ran = step]

\* an update arrived whose handler touches the dictionaries before its first
\* await only
runs(step) == tasks' = [tasks EXCEPT !.ran = step, !.updates = @ + 1]

\* on_start, line 264
on_start_264(chat) ==
    /\ PROFILES' = (chat :> profile_of(chat)) @@ PROFILES
    /\ UNCHANGED LISTS_CACHE

\* mutant: the institute stored without the lists of the chat
pick_inst_297_NoLists(chat, inst_id) ==
    /\ PROFILES' = (chat :> [profile_of(chat) EXCEPT
                                !.institute_id = inst_id,
                                !.institute_name = inst_name_of(inst_id),
                                !.course_num = NoneInt,
                                !.group_id = NoneStr,
                                !.group_name = NoneName]) @@ PROFILES
    /\ UNCHANGED LISTS_CACHE

\* pick_inst, lines 297-305, after the queries of lines 291-295
pick_inst_297(chat, inst_id) ==
    /\ PROFILES' = (chat :> [profile_of(chat) EXCEPT
                                !.institute_id = inst_id,
                                !.institute_name = inst_name_of(inst_id),
                                !.course_num = NoneInt,
                                !.group_id = NoneStr,
                                !.group_name = NoneName]) @@ PROFILES
    /\ LISTS_CACHE' = (chat :> [k \in {"groups_all"} |-> q_groups_by_institute(inst_id)])
                      @@ LISTS_CACHE

\* pick_course, lines 333 and 336: the query sent for prof.institute_id
groups_of(inst_id, sel) ==
    IF sel = 0 THEN q_groups_by_institute(inst_id)
    ELSE q_groups_by_institute_course(inst_id, sel)

\* pick_course, lines 334 and 337: prof.course_num written through prof
pick_course_334(chat, sel) ==
    /\ PROFILES' = [PROFILES EXCEPT ![chat].course_num = sel]
    /\ UNCHANGED LISTS_CACHE

\* pick_course, lines 340-341; line 341 raises KeyError without an entry
pick_course_340(chat, groups) ==
    /\ LISTS_CACHE' = IF chat \in DOMAIN LISTS_CACHE
                      THEN [LISTS_CACHE EXCEPT ![chat] = ("groups" :> groups) @@ @]
                      ELSE LISTS_CACHE
    /\ UNCHANGED PROFILES

\* mutant: the profile stored under the other chat's id
pick_group_375_OtherChat(chat, gid) ==
    /\ PROFILES' = ((3 - chat) :> picked(chat, gid, cached(chat, "groups"),
                                         cached(chat, "groups_all"))) @@ PROFILES
    /\ UNCHANGED LISTS_CACHE

\* pick_group, lines 375-383
pick_group_375(chat, gid) ==
    /\ PROFILES' = (chat :> picked(chat, gid, cached(chat, "groups"),
                                   cached(chat, "groups_all"))) @@ PROFILES
    /\ UNCHANGED LISTS_CACHE

\* free_text_pick_group, lines 401-405: one group found; pick_group runs
\* within the same step, up to its first await
free_text_401(chat, found) ==
    /\ LISTS_CACHE' = (chat :> [k \in {"groups_all"} |-> found]) @@ LISTS_CACHE
    /\ PROFILES' = (chat :> picked(chat, found[1].id, <<>>, found)) @@ PROFILES

InitTasks ==
    /\ PROFILES = <<>>
    /\ LISTS_CACHE = <<>>
    /\ tasks = [pending |-> {}, ran |-> Step(0, "", ""), updates |-> 0]
    /\ screen = <<>> /\ today = 0 /\ keyboards = <<>>
    /\ IdleCal
    /\ IdleNorm
    /\ IdleStore

TaskFrame == UNCHANGED <<screen, today, keyboards, calVars, normVars, storeVars>>

\* a further update arrives; no two suspended tasks of a run are alike
Arrives == tasks.updates < MaxUpdates

\* /start
OnStartRuns ==
    \E c \in TaskChats :
        /\ Arrives
        /\ on_start_264(c)
        /\ runs(Step(c, "on_start", ""))
        /\ TaskFrame

\* menu:change, which calls on_start
ChangeGroupRuns ==
    \E c \in TaskChats :
        /\ Arrives
        /\ on_start_264(c)
        /\ runs(Step(c, "change_group", ""))
        /\ TaskFrame

\* inst:<id> arrives: lines 290-291, suspended on the database
PickInstArrives ==
    \E c \in TaskChats, i \in 1..Len(DB_INSTITUTES) :
        /\ Arrives
        /\ awaits([Task(c, "pick_inst", 297) EXCEPT !.inst_id = DB_INSTITUTES[i][1]],
                  Step(c, "pick_inst", ""))
        /\ UNCHANGED <<PROFILES, LISTS_CACHE>>
        /\ TaskFrame

PickInstStores ==
    \E t \in Suspended :
        /\ t.handler = "pick_inst"
        /\ pick_inst_297(t.chat, t.inst_id)
        /\ ends(t, Step(t.chat, "pick_inst", ""))
        /\ TaskFrame

\* course:<sel> arrives: lines 325-331
PickCourseArrives ==
    \E c \in TaskChats, sel \in TaskCourses :
        /\ Arrives
        /\ IF profile_of(c).institute_id = NoneStr
           THEN runs(Step(c, "pick_course", ""))
           ELSE awaits([Task(c, "pick_course", 333) EXCEPT !.sel = sel],
                       Step(c, "pick_course", ""))
        /\ UNCHANGED <<PROFILES, LISTS_CACHE>>
        /\ TaskFrame

\* the connection is open: prof.institute_id is read for the query
PickCourseAsks ==
    \E t \in Suspended :
        /\ t.handler = "pick_course" /\ t.line = 333
        /\ resumes(t, [t EXCEPT !.line = 334,
                                !.inst_id = PROFILES[t.chat].institute_id],
                   Step(t.chat, "pick_course", ""))
        /\ UNCHANGED <<PROFILES, LISTS_CACHE>>
        /\ TaskFrame

\* the rows are back: groups bound, prof.course_num written, the connection
\* closed (an await)
PickCourseFetched ==
    \E t \in Suspended :
        /\ t.handler = "pick_course" /\ t.line = 334
        /\ pick_course_334(t.chat, t.sel)
        /\ resumes(t, [t EXCEPT !.line = 340, !.groups = groups_of(t.inst_id, t.sel)],
                   Step(t.chat, "pick_course", ""))
        /\ TaskFrame

PickCourseStores ==
    \E t \in Suspended :
        /\ t.handler = "pick_course" /\ t.line = 340
        /\ pick_course_340(t.chat, t.groups)
        /\ ends(t, Step(t.chat, "pick_course", IF t.chat \in DOMAIN LISTS_CACHE THEN "" ELSE "KeyError"))
        /\ TaskFrame

\* group:<id>
PickGroupRuns ==
    \E c \in TaskChats, i \in 1..Len(DB_GROUPS) :
        /\ Arrives
        /\ pick_group_375(c, DB_GROUPS[i].id)
        /\ runs(Step(c, "pick_group", ""))
        /\ TaskFrame

\* a text arrives: lines 393-397
FreeTextArrives ==
    \E c \in TaskChats, q \in TaskQueries :
        /\ Arrives
        /\ IF Len(strip(q)) < 2
           THEN runs(Step(c, "free_text_pick_group", ""))
           ELSE awaits([Task(c, "free_text_pick_group", 398) EXCEPT !.query = strip(q)],
                          Step(c, "free_text_pick_group", ""))
        /\ UNCHANGED <<PROFILES, LISTS_CACHE>>
        /\ TaskFrame

\* the groups found are back: lines 398-411
FreeTextFound ==
    \E t \in Suspended :
        /\ t.handler = "free_text_pick_group"
        /\ IF Len(q_find_groups_by_name(t.query)) = 1
           THEN /\ free_text_401(t.chat, q_find_groups_by_name(t.query))
                /\ ends(t, Step(t.chat, "free_text_pick_group", ""))
           ELSE /\ UNCHANGED <<PROFILES, LISTS_CACHE>>
                /\ ends(t, Step(t.chat, "free_text_pick_group", ""))
        /\ TaskFrame

NextTasks ==
    \/ OnStartRuns
    \/ ChangeGroupRuns
    \/ PickInstArrives
    \/ PickInstStores
    \/ PickCourseArrives
    \/ PickCourseAsks
    \/ PickCourseFetched
    \/ PickCourseStores
    \/ PickGroupRuns
    \/ FreeTextArrives
    \/ FreeTextFound

SpecTasks == InitTasks /\ [][NextTasks]_vars

(***************************************************************************)
(* Properties of the week view                                             *)
(***************************************************************************)
\* the lessons of a group on a day whose week is 'all' or the given parity
LessonsOf(group_id, dd, parity) ==
    {r \in DB_LESSONS : r.group_id = group_id /\ r.day = dd
                            /\ r.week \in {"all", parity}}

\* the rows listed under a day of a week view
RowsOf(view, dd) == {view.by_day[dd][i] : i \in 1..Len(view.by_day[dd])}

\* a week view that lists, under every day, exactly the group's lessons of
\* the given parity, each once
ListsSubset(view, parity) ==
    \A dd \in 1..7 :
        /\ RowsOf(view, dd) = LessonsOf(view.group_id, dd, parity)
        /\ Len(view.by_day[dd]) = Cardinality(LessonsOf(view.group_id, dd, parity))

\* C8 (as stated): a week view of status 'rc' lists the lessons with week
\* 'all' plus those of the parity the 7-week block arithmetic gives the week.
C8_RcUnderlyingParity ==
    \A c \in Chats :
        (screen[c].kind = "week" /\ screen[c].status = "rc")
            => ListsSubset(screen[c], week_parity(screen[c].week_start))

\* C8 (amended): a week view of status 'rc' lists the lessons with week 'all'
\* plus those with week 'even', whatever parity the block arithmetic gives
\* the week.
C8_RcShowsEvenSubset ==
    \A c \in Chats :
        (screen[c].kind = "week" /\ screen[c].status = "rc")
            => ListsSubset(screen[c], "even")

\* an 'rc' week of an odd block on show, for a group that has lessons of
\* either parity
C8_Witness ==
    \E c \in Chats :
        /\ screen[c].kind = "week"
        /\ screen[c].status = "rc"
        /\ week_parity(screen[c].week_start) = "odd"
        /\ \E dd \in 1..7 :
              LessonsOf(screen[c].group_id, dd, "odd")
                  /= LessonsOf(screen[c].group_id, dd, "even")

\* C13: show_week_common shows per-day lesson blocks exactly when the status
\* of the week start is odd, even or rc; when it is holiday, vacation, exam or
\* before it shows the no-classes message and holds no lesson rows.
C13_LessonsOnlyInTeachingWeeks ==
    \A c \in Chats :
        screen[c].kind \in {"week", "no_classes"} =>
            /\ screen[c].status = get_week_status(screen[c].week_start)
            /\ screen[c].status \in {"odd", "even", "rc"} <=> screen[c].kind = "week"
            /\ screen[c].status \in {"holiday", "vacation", "exam", "before"}
                  <=> screen[c].kind = "no_classes"
            /\ screen[c].kind = "no_classes" => screen[c].by_day = <<>>
            /\ screen[c].kind = "week" => DOMAIN screen[c].by_day = 1..7

\* C13 witness: the no-classes message on show for a week whose start is in
\* the exam session
C13_Witness ==
    \E c \in Chats :
        /\ screen[c].kind = "no_classes"
        /\ screen[c].status = "exam"
        /\ screen[c].by_day = <<>>


(***************************************************************************)
(* The lessons of a day                                                    *)
(***************************************************************************)
\* the stored lessons of a group and day in a week of the given parity
StoredFor(group_id, day, parity) ==
    {r \in DB_LESSONS : /\ r.group_id = group_id
                        /\ r.day = day
                        /\ r.week \in {"all", parity}}

Opposite(parity) == IF parity = "odd" THEN "even" ELSE "odd"

\* C22: q_lessons_for_day with parity 'odd' or 'even' returns exactly the
\* stored lessons of the group and day whose week is 'all' or that parity,
\* each once; no lesson of the opposite parity, another day or another group
\* is returned.  Read off every rendered week: by_day[dd] is the answer of
\* q_lessons_for_day(group_id, dd, parity).
C22_DayLessonsExactlyMatching ==
    \A c \in Chats :
        screen[c].kind = "week" =>
            \A dd \in 1..7 :
                LET rows == screen[c].by_day[dd]
                    want == StoredFor(screen[c].group_id, dd, screen[c].parity)
                IN  /\ {rows[i] : i \in 1..Len(rows)} = want
                    /\ Len(rows) = Cardinality(want)
                    /\ \A i \in 1..Len(rows) :
                          /\ rows[i].week /= Opposite(screen[c].parity)
                          /\ rows[i].day = dd
                          /\ rows[i].group_id = screen[c].group_id

\* an odd week of group g1 is shown: Monday holds the two 'all' and the two
\* 'odd' lessons while the stored 'even' lesson of that day is left out
C22_Witness ==
    \E c \in Chats :
        /\ screen[c].kind = "week"
        /\ screen[c].parity = "odd"
        /\ screen[c].group_id = "g1"
        /\ Len(screen[c].by_day[1]) = 4
        /\ \E r \in DB_LESSONS : r.group_id = "g1" /\ r.day = 1 /\ r.week = "even"


(***************************************************************************)
(* The week shown                                                          *)
(***************************************************************************)
\* the screens show_week_common answers with; week_start is its argument
ByShowWeek(c) == screen[c].kind \in {"alert_select_group", "week", "no_classes"}

\* C27: with week callbacks taken only from keyboards the bot has sent, the
\* week start passed to show_week_common is always a Monday: a picked group
\* shows monday_of_week(today), the buttons of a shown week are the Mondays
\* seven days before and after it and the current Monday, a pressed button
\* shows exactly its date, and an unparsable date shows the current Monday.
C27_WeekStartIsMonday ==
    \A c \in Chats :
        /\ \A ws \in keyboards[c] : isoweekday(ws) = 1
        /\ ByShowWeek(c) =>
              /\ isoweekday(screen[c].week_start) = 1
              /\ screen[c].handler \in {"pick_group", "free_text_pick_group"} =>
                    /\ screen[c].week_start = today - (isoweekday(today) - 1)
                    /\ screen[c].week_start <= today
                    /\ today < screen[c].week_start + 7
              /\ screen[c].handler = "navigate_week" =>
                    IF screen[c].asked = 0
                    THEN screen[c].week_start = today - (isoweekday(today) - 1)
                    ELSE /\ screen[c].week_start = screen[c].asked
                         /\ screen[c].asked \in keyboards[c]
              /\ screen[c].kind \in {"week", "no_classes"} =>
                    screen[c].keyboard = {screen[c].week_start - 7,
                                          today - (isoweekday(today) - 1),
                                          screen[c].week_start + 7}

\* a chat that picked a group has paged to the Monday seven days after the
\* current one, which is not the day the bot runs on
C27_Witness ==
    \E c \in Chats :
        /\ screen[c].handler = "navigate_week"
        /\ screen[c].kind \in {"week", "no_classes"}
        /\ screen[c].asked = screen[c].week_start
        /\ screen[c].week_start = today - (isoweekday(today) - 1) + 7
        /\ isoweekday(today) /= 1


(***************************************************************************)
(* After an institute is selected                                          *)
(***************************************************************************)
\* the chat selected an institute and has picked no group since: only
\* pick_inst sets institute_id, and only pick_inst takes group_id away
AwaitsGroup(c) ==
    /\ c \in DOMAIN PROFILES
    /\ PROFILES[c].institute_id /= NoneStr
    /\ PROFILES[c].group_id = NoneStr

\* a schedule is on the chat's screen only with a group in its profile, and
\* it is that group's
RendersOnlyWithGroup(c) ==
    screen[c].kind \in {"week", "no_classes"} =>
        /\ c \in DOMAIN PROFILES
        /\ PROFILES[c].group_id /= NoneStr
        /\ screen[c].group_id = PROFILES[c].group_id

C29_InstituteHasLists ==
    /\ [](/\ \A c \in TaskChats :
               (c \in DOMAIN PROFILES /\ PROFILES[c].institute_id /= NoneStr) =>
                   c \in DOMAIN LISTS_CACHE
          /\ \A t \in Suspended :
               t.handler = "pick_course" => t.chat \in DOMAIN LISTS_CACHE
          /\ tasks.ran.raised /= "KeyError")
    /\ [][DOMAIN LISTS_CACHE \subseteq DOMAIN LISTS_CACHE']_vars

\* pick_course has stored its groups after a pick_inst of the same chat ran
\* between its awaits: the stored groups are those of the institute it had
\* read, not of the institute now in the profile
C29_Witness ==
    \E c \in TaskChats :
        /\ tasks.ran = Step(c, "pick_course", "")
        /\ \A t \in Suspended : t.chat /= c
        /\ c \in DOMAIN PROFILES
        /\ c \in DOMAIN LISTS_CACHE
        /\ "groups" \in DOMAIN LISTS_CACHE[c]
        /\ LISTS_CACHE[c]["groups"] /=
               groups_of(PROFILES[c].institute_id, PROFILES[c].course_num)

\* what a dictionary holds under a chat's id
Entry(f, chat) == IF chat \in DOMAIN f THEN <<f[chat]>> ELSE <<>>

\* C30: a step of a handler changes PROFILES and LISTS_CACHE only under the
\* id of the chat whose update it handles: the profile and the cached lists
\* of every other chat stay as they were.
C30_OnlyOwnChat ==
    [][\A b \in TaskChats :
          (\/ Entry(PROFILES, b)' /= Entry(PROFILES, b)
           \/ Entry(LISTS_CACHE, b)' /= Entry(LISTS_CACHE, b)) =>
              tasks'.ran.chat = b]_vars

\* chat a picked a group while chat b, with an institute selected and its
\* lists cached, has a task suspended: b's entries are still those of its
\* pick_inst
C30_Witness ==
    \E a \in TaskChats, b \in TaskChats :
        /\ a /= b
        /\ tasks.ran = Step(a, "pick_group", "")
        /\ a \in DOMAIN PROFILES /\ PROFILES[a].group_id /= NoneStr
        /\ b \in DOMAIN PROFILES /\ b \in DOMAIN LISTS_CACHE
        /\ PROFILES[b].institute_id /= NoneStr
        /\ PROFILES[b].group_id = NoneStr
        /\ LISTS_CACHE[b]["groups_all"] = q_groups_by_institute(PROFILES[b].institute_id)
        /\ \E t \in Suspended : t.chat = b

=============================================================================
